---- MODULE Spec2Model ----
(***************************************************************************)
(* The accessibility analysis pipeline of the extension's background       *)
(* service (AccessibilityService), in its two variants:                    *)
(*   "imagesOnly"  chrome-extension/src/background/services/accessibility.ts *)
(*   "full"        the service with link and button enrichment and a       *)
(*                 progress callback (unnamed/part_001)                    *)
(* The orchestrator analyzeAccessibility is modelled step by step, every   *)
(* await being a point where the gateway, the page and the other           *)
(* per-element enrichments of the phase may interleave.  The batch methods *)
(* analyzeLinks and analyzeButtons are also entered directly, as units.    *)
(***************************************************************************)
EXTENDS Integers, Sequences, FiniteSets, TLC

\* ---------------------------------------------------------------- bounds
MaxImages == 2
MaxLinks == 2
MaxButtons == 2
\* the elements of one kind on the longest page scanned, the scans of a page
MaxPage == 21
MaxScans == 2

\* ------------------------------------------------------ program constants
\* .slice(0, 10): the demo-mode cap of the full orchestrator
DemoTopN == 10
\* links.slice(0, 20) of extractLinks, buttons.slice(0, 15) of extractButtons
LinkCap == 20
ButtonCap == 15

VARIABLES
  content,        \* the content script: its variables, the body, its responses
  config,         \* DEFAULT_OPENAI_KEY and the initializeDefaultConfig calls
  document,       \* the page as the extractors' in-page scans see it
  scans,          \* what the extractors' in-page scans returned, in order
  variant,        \* which of the two services runs
  entry,          \* the method that was called
  hasCallback,    \* a progressCallback was supplied (full variant)
  store,          \* llmProviderStore / agentModelStore content
  pc,             \* the call the orchestrator awaits, or how it settled
  readability,    \* what readabilityService.extractContent answered
  images,         \* the orchestrator's local `images`
  links,          \* the orchestrator's local `links`
  buttons,        \* the orchestrator's local `buttons`
  pageSummary,    \* the orchestrator's local `pageSummary`
  imageTasks,     \* the generateAltTextForImage calls of the image phase
  linkTasks,      \* the generateLinkDescription calls of the link phase
  buttonTasks,    \* the generateButtonDescription calls of the button phase
  imageAnalysis,  \* analyzeImages' result
  linkAnalysis,   \* analyzeLinks' result
  buttonAnalysis, \* analyzeButtons' result
  error,          \* the error analyzeAccessibility rejected with
  steps,          \* the orchestrator's calls, in order
  progress,       \* the labels delivered to progressCallback, in order
  summaryCalls,   \* model.invoke calls issued by generatePageSummary
  attr            \* the page: alt, aria-label and title of each element

vars == <<content, config, document, scans, variant, entry, hasCallback, store, pc, readability, images, links,
          buttons, pageSummary, imageTasks, linkTasks, buttonTasks,
          imageAnalysis, linkAnalysis, buttonAnalysis, error, steps, progress,
          summaryCalls, attr>>

\* ------------------------------------------------------------- the values
\* generatedAlt / generatedDescription: undefined
Undefined == "undefined"
\* fetchImageAsBase64: null
Null == "null"
NoError == "none"
NoSummary == "none"

\* what the model answers, after toString().trim()
Texts == {"", "A logo."}

\* a JavaScript value used where an array is expected
Arr(s) == [isArray |-> TRUE, items |-> s]
\* Array.prototype.reverse, the function: what `xs.reverse` evaluates to
ReverseMethod == [isArray |-> FALSE, items |-> <<>>]
\* x.length: the number of elements of an array, the arity of `reverse`
Length(x) == IF x.isArray THEN Len(x.items) ELSE 0

Min(a, b) == IF a < b THEN a ELSE b

\* xs.slice(0, n)
Slice(xs, n) == SubSeq(xs, 1, Min(Len(xs), n))
\* xs.reverse()
Reverse(xs) == [i \in 1..Len(xs) |-> xs[Len(xs) + 1 - i]]

\* the thrown values of model.invoke; a message is the sequence of its parts
Includes(message, part) == \E k \in 1..Len(message) : message[k] = part

GatewayErrors ==
  { [isError |-> TRUE,  message |-> <<"400", " Invalid image URL">>],
    [isError |-> TRUE,  message |-> <<"BadRequestError", ": invalid image">>],
    [isError |-> TRUE,  message |-> <<"Error while downloading", " https://x/a.jpg">>],
    [isError |-> TRUE,  message |-> <<"429", " Rate limit exceeded">>],
    [isError |-> FALSE, message |-> <<"400">>] }

\* the data URIs of fetchImageAsBase64
DataURIs == {"data:image/jpeg", "data:image/png", "data:blob"}

\* ----------------------------------------------------------------- the page
\* the elements of the page, by kind and position in document order
Kinds == {"img", "a", "button"}
MaxOf(kind) == CASE kind = "img" -> MaxImages [] kind = "a" -> MaxLinks [] OTHER -> MaxButtons
Element(kind, k) == <<kind, k>>
NoElement == <<"none", 0>>
\* the elements whose attributes the page keeps
Elements == UNION {{Element(kind, k) : k \in 1..MaxOf(kind)} : kind \in Kinds}
\* the elements of a document
DocElements(doc) == UNION {{Element(kind, k) : k \in 1..Len(doc[kind])} : kind \in Kinds}
Node(doc, e) == doc[e[1]][e[2]]

ProvenancePrefix == "AI Generated: "
\* an attribute value is the sequence of the parts it was put together from
Authored == <<"authored">>
\* Tagged without the provenance prefix
Untagged(text) == <<text>>

\* `AI Generated: ${text}`
Tagged(text) == <<ProvenancePrefix, text>>
AuthoredElement == [alt |-> Authored, ariaLabel |-> Authored, title |-> Authored]

\* a text and its length; `lower` is the text after trim() and toLowerCase()
Text(lower, length) == [lower |-> lower, length |-> length]
EmptyText == Text("", 0)

\* ------------------------------------------------------- the in-page scans
\* an element as the walks towards the root read it: its tag name, and its
\* class attribute and id as the sequences of their parts
El(tagName, className, id) == [tagName |-> tagName, className |-> className, id |-> id]
Plain(tagName) == El(tagName, <<>>, <<>>)

\* `current` of the walks: the node, then its parentElement chain up to body
Chain(node) == <<El(node.tag, node.className, <<node.id>>)>> \o node.ancestors

\* one `tag.class.class` segment (the elements here have at most two classes)
Segment(el) == <<el.tagName>> \o el.className

\* the path generateSelector builds: the segments of the node and of at most
\* four of its ancestors, the outermost first
Path(node) ==
  LET chain == Chain(node)
      n == Min(Len(chain), 5)
  IN [i \in 1..n |-> Segment(chain[n + 1 - i])]

\* generateSelector: `#id`, or the path joined by ' > '
generateSelector(node) == IF node.id # "" THEN <<"#", node.id>> ELSE Path(node)

\* element.matches(selector), for the selectors generateSelector builds
Matches(node, selector) ==
  \/ node.id # "" /\ selector = <<"#", node.id>>
  \/ selector = Path(node)

\* the first test of isInMainContent's loop, the same in the three extractors
MainContentIndicator(el) ==
  \/ el.tagName \in {"main", "article"}
  \/ \E part \in {"main", "content", "article"} : Includes(el.className, part)
  \/ \E part \in {"main", "content"} : Includes(el.id, part)

\* the second test of the loop in extractImages
NonContentIndicatorOfImages(el) ==
  \/ el.tagName \in {"nav", "aside", "footer", "header"}
  \/ \E part \in {"sidebar", "menu", "nav", "ad", "banner"} : Includes(el.className, part)

\* the second test of the loop in extractLinks and in extractButtons
NonContentIndicatorOfLinks(el) ==
  \/ el.tagName \in {"nav", "aside", "footer", "header"}
  \/ \E part \in {"sidebar", "menu", "nav"} : Includes(el.className, part)

\* the loop of extractImages.isInMainContent from the k-th element of the chain
RECURSIVE WalkOfImages(_, _)
WalkOfImages(chain, k) ==
  IF k > Len(chain) THEN FALSE
  ELSE IF MainContentIndicator(chain[k]) THEN TRUE
  ELSE IF NonContentIndicatorOfImages(chain[k]) THEN FALSE
  ELSE WalkOfImages(chain, k + 1)

\* the loop of extractLinks.isInMainContent and extractButtons.isInMainContent
RECURSIVE WalkOfLinks(_, _)
WalkOfLinks(chain, k) ==
  IF k > Len(chain) THEN FALSE
  ELSE IF MainContentIndicator(chain[k]) THEN TRUE
  ELSE IF NonContentIndicatorOfLinks(chain[k]) THEN FALSE
  ELSE WalkOfLinks(chain, k + 1)

\* isInMainContent of extractImages, extractLinks, extractButtons
isInMainContentOfImages(node) == WalkOfImages(Chain(node), 1)
isInMainContentOfLinks(node) == WalkOfLinks(Chain(node), 1)
isInMainContentOfButtons(node) == WalkOfLinks(Chain(node), 1)

\* document.querySelector(selector): the first match in document order (the
\* selectors of one kind match no element of another)
querySelector(doc, selector) ==
  LET matching == {e \in DocElements(doc) : Matches(Node(doc, e), selector)}
  IN IF matching = {} THEN NoElement
     ELSE CHOOSE e \in matching : \A f \in matching : f[1] = e[1] => e[2] <= f[2]

\* Math.max(0, Math.min(100, score)) without the lower limit
ClampUpperOnly(score) == IF score > 100 THEN 100 ELSE score

\* Math.max(0, Math.min(100, score))
Clamp(score) == IF score > 100 THEN 100 ELSE IF score < 0 THEN 0 ELSE score

\* extractImages.isValidImageUrl
isValidImageUrl(url) ==
  /\ url # <<>>
  /\ ~\E part \in {".svg", "data:image/svg", "/ad/", "/ads/", "advertisement",
                   "banner", "tracking"} : Includes(url, part)
  /\ \E part \in {"image", "http", "jpg", "jpeg", "png", "webp"} : Includes(url, part)

\* extractLinks.isValidLink
isValidLink(url) ==
  /\ url # <<>>
  /\ url[1] \notin {"#", "javascript:", "mailto:", "tel:"}

\* ImageRawScore with the size of a background-image container counted too
ImageRawScoreSizedContainers(node, isMain) ==
  (IF isMain THEN 50 ELSE 0)
  + (IF node.width > 300 /\ node.height > 200 THEN 30
     ELSE IF node.width > 150 /\ node.height > 100 THEN 15 ELSE 0)
  + (IF node.width < 50 \/ node.height < 50 THEN -30 ELSE 0)
  + (IF \E part \in {"hero", "featured", "main", "primary"} : Includes(node.className, part)
     THEN 25 ELSE 0)
  + (IF node.figure THEN 15 ELSE 0)

\* the score of extractImages.calculateImportanceScore before the clamp
ImageRawScore(node, isMain) ==
  (IF isMain THEN 50 ELSE 0)
  + (IF node.tag # "img" THEN 0
     ELSE (IF node.width > 300 /\ node.height > 200 THEN 30
           ELSE IF node.width > 150 /\ node.height > 100 THEN 15 ELSE 0)
          + (IF node.width < 50 \/ node.height < 50 THEN -30 ELSE 0))
  + (IF \E part \in {"hero", "featured", "main", "primary"} : Includes(node.className, part)
     THEN 25 ELSE 0)
  + (IF node.figure THEN 15 ELSE 0)

\* LinkRawScore taking a text of three characters for a meaningful one
LinkRawScoreFromThree(node, isMain) ==
  (IF isMain THEN 50 ELSE 0)
  + (IF \E part \in {"primary", "cta", "button", "btn"} : Includes(node.className, part)
     THEN 30 ELSE 0)
  + (IF node.text.length >= 3 /\ node.text.length < 100 THEN 20
     ELSE IF node.text.length < 3 THEN -20 ELSE 0)
  + (IF node.text.lower \in {"read more", "click here", "more"} THEN -10 ELSE 0)

\* the score of extractLinks.calculateImportanceScore before the clamp
LinkRawScore(node, isMain) ==
  (IF isMain THEN 50 ELSE 0)
  + (IF \E part \in {"primary", "cta", "button", "btn"} : Includes(node.className, part)
     THEN 30 ELSE 0)
  + (IF node.text.length > 3 /\ node.text.length < 100 THEN 20
     ELSE IF node.text.length <= 3 THEN -20 ELSE 0)
  + (IF node.text.lower \in {"read more", "click here", "more"} THEN -10 ELSE 0)

\* the score of extractButtons.calculateImportanceScore before the clamp
ButtonRawScore(node, isMain) ==
  LET hasAriaLabel == node.ariaLabel.length > 0 /\ node.ariaLabel # node.text IN
  (IF isMain THEN 50 ELSE 0)
  + (IF \E part \in {"primary", "cta", "submit"} : Includes(node.className, part)
     THEN 30 ELSE 0)
  + (IF hasAriaLabel THEN -20 ELSE 0)
  + (IF node.text.length > 0 /\ node.text.length < 50 THEN 20
     ELSE IF node.text.length = 0 THEN 30 ELSE 0)

\* calculateImportanceScore of extractImages, extractLinks, extractButtons
calculateImageImportanceScore(node, isMain) == Clamp(ImageRawScore(node, isMain))
calculateLinkImportanceScore(node, isMain) == Clamp(LinkRawScore(node, isMain))
calculateButtonImportanceScore(node, isMain) == Clamp(ButtonRawScore(node, isMain))

\* the candidate pushed for an element; `element` is the node it was read from
ImageCandidate(doc, k) ==
  LET isMain == isInMainContentOfImages(doc.img[k]) IN
  [imageUrl |-> doc.img[k].src, selector |-> generateSelector(doc.img[k]),
   isMainContent |-> isMain,
   importanceScore |-> calculateImageImportanceScore(doc.img[k], isMain),
   element |-> Element("img", k)]
LinkCandidate(doc, k) ==
  LET isMain == isInMainContentOfLinks(doc.a[k]) IN
  [linkUrl |-> doc.a[k].href, selector |-> generateSelector(doc.a[k]),
   isMainContent |-> isMain,
   importanceScore |-> calculateLinkImportanceScore(doc.a[k], isMain),
   element |-> Element("a", k)]
ButtonCandidate(doc, k) ==
  LET isMain == isInMainContentOfButtons(doc.button[k]) IN
  [buttonText |-> doc.button[k].text, selector |-> generateSelector(doc.button[k]),
   isMainContent |-> isMain,
   importanceScore |-> calculateButtonImportanceScore(doc.button[k], isMain),
   element |-> Element("button", k)]

\* SortByScore putting a candidate in front of those of equal score
RECURSIVE SortByScoreTiesReversed(_)
SortByScoreTiesReversed(xs) ==
  IF xs = <<>> THEN <<>>
  ELSE LET sorted == SortByScoreTiesReversed(SubSeq(xs, 1, Len(xs) - 1))
           x == xs[Len(xs)]
           p == Cardinality({j \in 1..Len(sorted) :
                               sorted[j].importanceScore > x.importanceScore})
       IN SubSeq(sorted, 1, p) \o <<x>> \o SubSeq(sorted, p + 1, Len(sorted))

\* xs.sort((a, b) => b.importanceScore - a.importanceScore): descending, and
\* candidates of equal score keep their order
RECURSIVE SortByScore(_)
SortByScore(xs) ==
  IF xs = <<>> THEN <<>>
  ELSE LET sorted == SortByScore(SubSeq(xs, 1, Len(xs) - 1))
           x == xs[Len(xs)]
           p == Cardinality({j \in 1..Len(sorted) :
                               sorted[j].importanceScore >= x.importanceScore})
       IN SubSeq(sorted, 1, p) \o <<x>> \o SubSeq(sorted, p + 1, Len(sorted))

\* the forEach of extractImages over the elements of one tag, from element k
\* on: an image is pushed when its URL is valid and new (processedUrls) and, for
\* a div with a background image, when it is at least 50 by 50
RECURSIVE PushImages(_, _, _, _)
PushImages(doc, tag, k, pushed) ==
  IF k > Len(doc.img) THEN pushed
  ELSE LET node == doc.img[k]
           push == /\ node.tag = tag
                   /\ isValidImageUrl(node.src)
                   /\ ~\E j \in 1..Len(pushed) : pushed[j].imageUrl = node.src
                   /\ tag = "div" => ~(node.width < 50 \/ node.height < 50)
       IN PushImages(doc, tag, k + 1,
                     IF push THEN Append(pushed, ImageCandidate(doc, k)) ELSE pushed)

\* the forEach of extractLinks from element k on: the selector of a valid link
\* is recorded (processedSelectors) before the link is skipped for its empty text
RECURSIVE PushLinks(_, _, _, _)
PushLinks(doc, k, processedSelectors, pushed) ==
  IF k > Len(doc.a) THEN pushed
  ELSE LET node == doc.a[k]
           selector == generateSelector(node)
           fresh == isValidLink(node.href) /\ selector \notin processedSelectors
       IN PushLinks(doc, k + 1,
                    IF fresh THEN processedSelectors \cup {selector} ELSE processedSelectors,
                    IF fresh /\ node.text.length > 0
                    THEN Append(pushed, LinkCandidate(doc, k)) ELSE pushed)

\* the forEach of extractButtons from element k on
RECURSIVE PushButtons(_, _, _)
PushButtons(doc, k, pushed) ==
  IF k > Len(doc.button) THEN pushed
  ELSE LET selector == generateSelector(doc.button[k])
           fresh == ~\E j \in 1..Len(pushed) : pushed[j].selector = selector
       IN PushButtons(doc, k + 1,
                      IF fresh THEN Append(pushed, ButtonCandidate(doc, k)) ELSE pushed)

\* the cap applied to the elements in document order, before the ranking
TopRankedFirstCome(found, cap) == SortByScore(Slice(found, cap))

\* found.sort(...).slice(0, cap)
TopRanked(found, cap) == Slice(SortByScore(found), cap)

\* what the in-page function of each extractor returns
imagesInPage(doc) ==
  SortByScore(PushImages(doc, "div", 1, PushImages(doc, "img", 1, <<>>)))
linksInPage(doc) == TopRanked(PushLinks(doc, 1, {}, <<>>), LinkCap)
buttonsInPage(doc) == TopRanked(PushButtons(doc, 1, <<>>), ButtonCap)

\* ------------------------------------------------- the pages of an analysis
\* where the elements of a page stand: in the main content, in the navigation
InMain == <<Plain("div"), Plain("main")>>
InNav == <<Plain("nav")>>

\* elements with plain signals; with `ids` every element has an id of its own,
\* without them the elements of a kind are siblings of one tag and class
PlainImage(k, ids) ==
  [tag |-> "img", src |-> <<"http", "://x/", ToString(k), ".jpg">>,
   id |-> IF ids THEN ToString(k) ELSE "", ancestors |-> InMain,
   width |-> 400, height |-> 300, className |-> <<>>, figure |-> FALSE]
PlainLink(k, ids) ==
  [tag |-> "a", href |-> <<"https:", "//x/", ToString(k)>>, text |-> Text("pricing", 7),
   id |-> IF ids THEN ToString(k) ELSE "", ancestors |-> InMain, className |-> <<>>]
PlainButton(k, ids) ==
  [tag |-> "button", text |-> Text("send", 4), ariaLabel |-> EmptyText,
   id |-> IF ids THEN ToString(k) ELSE "", ancestors |-> InMain, className |-> <<>>]
PlainPage(ids, ni, nl, nb) ==
  [img |-> [k \in 1..ni |-> PlainImage(k, ids)],
   a |-> [k \in 1..nl |-> PlainLink(k, ids)],
   button |-> [k \in 1..nb |-> PlainButton(k, ids)]]
EmptyPage == PlainPage(TRUE, 0, 0, 0)

\* the pages an entry is run on: only the elements its code reaches vary
PagesOf(v, e) ==
  { PlainPage(ids, ni, nl, nb) :
      ids \in BOOLEAN,
      ni \in (IF e = "analyzeAccessibility" THEN 0..MaxImages ELSE {0}),
      nl \in (IF e = "analyzeLinks" \/ (e = "analyzeAccessibility" /\ v = "full")
              THEN 0..MaxLinks ELSE {0}),
      nb \in (IF e = "analyzeButtons" \/ (e = "analyzeAccessibility" /\ v = "full")
              THEN 0..MaxButtons ELSE {0}) }

\* ----------------------------------------------------- the content script
\* a value that may be null: << >> is null, <<x>> is x
NullValue == << >>
Some(x) == <<x>>

\* the elements of the page and of the reader view that a selector can name
PageNames == {"#a", "#b"}
ReaderNames == {"#readability-title"}
HighlightBorder == "3px solid #10b981"
HighlightOutline == "2px solid #10b981"

\* element.style.border and element.style.outline
Inline(border, outline) == [border |-> border, outline |-> outline]
NoInline == Inline("", "")

\* document.body.innerHTML, as far as the script reads and writes it: which
\* view it is and the inline border and outline of its elements
PageHtml(border) ==
  [view |-> "page",
   inline |-> [name \in PageNames |-> IF name = "#a" THEN Inline(border, "") ELSE NoInline]]
\* readerHTML
ReaderHtml == [view |-> "reader", inline |-> [name \in ReaderNames |-> NoInline]]

\* the script's variables when it is loaded into a page; `nodes` tells the
\* elements of one parse of the body from those of another, `before` keeps the
\* body as it was when reader mode was first applied, `authored` the page as
\* it was loaded
ContentLoaded(html, style) ==
  [readabilityModeActive |-> FALSE,
   originalBodyHTML |-> NullValue, originalBodyStyle |-> NullValue,
   highlightedElement |-> NullValue, originalBorder |-> NullValue,
   originalOutline |-> NullValue,
   body |-> [innerHTML |-> html, style |-> style, nodes |-> 0],
   responses |-> << >>, before |-> NullValue, authored |-> html]

\* ------------------------------------------------- the default configuration
\* import.meta.env.DEFAULT_OPENAI_KEY unset, no call of initializeDefaultConfig
NoPreset == [DEFAULT_OPENAI_KEY |-> Undefined, calls |-> << >>]

\* -------------------------------------------------------- the orchestrator
\* Pipeline with the summary requested before the configuration is validated
PipelineSummaryFirst(v) ==
  IF v = "imagesOnly"
  THEN <<"extractPageContent", "extractImages", "generatePageSummary",
         "getLLMConfiguration", "analyzeImages">>
  ELSE <<"extractPageContent", "extractImages", "extractLinks", "extractButtons",
         "generatePageSummary", "getLLMConfiguration", "analyzeImages",
         "analyzeLinks", "analyzeButtons">>

Pipeline(v) ==
  IF v = "imagesOnly"
  THEN <<"extractPageContent", "extractImages", "getLLMConfiguration",
         "generatePageSummary", "analyzeImages">>
  ELSE <<"extractPageContent", "extractImages", "extractLinks", "extractButtons",
         "getLLMConfiguration", "generatePageSummary", "analyzeImages",
         "analyzeLinks", "analyzeButtons">>

\* the call that follows `step` in analyzeAccessibility; "return" after the last
Following(v, step) ==
  LET p == Pipeline(v)
      k == CHOOSE i \in 1..Len(p) : p[i] = step
  IN IF k = Len(p) THEN "return" ELSE p[k + 1]

\* ProgressLabel with the label of the link extraction pasted on the button extraction
ProgressLabelPasted(step, imgs, lnks, btns) ==
  CASE step = "extractPageContent" ->
         [label |-> "Extracting page content...", count |-> 0]
    [] step = "extractImages" ->
         [label |-> "Extracting images from page (Top 10 - DEMO mode)...", count |-> 0]
    [] step \in {"extractLinks", "extractButtons"} ->
         [label |-> "Extracting links from page (Top 10 - DEMO mode)...", count |-> 0]
    [] step = "getLLMConfiguration" ->
         [label |-> "Configuring AI model...", count |-> 0]
    [] step = "generatePageSummary" ->
         [label |-> "Generating page summary...", count |-> 0]
    [] step = "analyzeImages" ->
         [label |-> "Analyzing N images with AI vision...", count |-> Length(imgs)]
    [] step = "analyzeLinks" ->
         [label |-> "Analyzing N links...", count |-> Length(lnks)]
    [] step = "analyzeButtons" ->
         [label |-> "Analyzing N buttons...", count |-> Length(btns)]
    [] OTHER ->
         [label |-> "Finalizing accessibility report...", count |-> 0]

\* the argument of progressCallback before `step`
ProgressLabel(step, imgs, lnks, btns) ==
  CASE step = "extractPageContent" ->
         [label |-> "Extracting page content...", count |-> 0]
    [] step = "extractImages" ->
         [label |-> "Extracting images from page (Top 10 - DEMO mode)...", count |-> 0]
    [] step = "extractLinks" ->
         [label |-> "Extracting links from page (Top 10 - DEMO mode)...", count |-> 0]
    [] step = "extractButtons" ->
         [label |-> "Extracting buttons from page (Top 10 - DEMO mode)...", count |-> 0]
    [] step = "getLLMConfiguration" ->
         [label |-> "Configuring AI model...", count |-> 0]
    [] step = "generatePageSummary" ->
         [label |-> "Generating page summary...", count |-> 0]
    [] step = "analyzeImages" ->
         [label |-> "Analyzing N images with AI vision...", count |-> Length(imgs)]
    [] step = "analyzeLinks" ->
         [label |-> "Analyzing N links...", count |-> Length(lnks)]
    [] step = "analyzeButtons" ->
         [label |-> "Analyzing N buttons...", count |-> Length(btns)]
    [] OTHER ->
         [label |-> "Finalizing accessibility report...", count |-> 0]

\* progressCallback?.(label)
Notify(step, imgs, lnks, btns) ==
  IF variant = "full" /\ hasCallback
  THEN Append(progress, ProgressLabel(step, imgs, lnks, btns))
  ELSE progress

\* ------------------------------------------------- per-element enrichment
\* generateAltTextForImage up to its first await: the direct describeImage
\* call is issued with the remote URL
StartImageTask(image) ==
  [imageUrl |-> image.imageUrl, selector |-> image.selector,
   element |-> image.element, pc |-> "direct",
   calls |-> <<"url">>, first |-> "pending", seen |-> "unseen", route |-> "none",
   base64 |-> Null, generatedAlt |-> Undefined, wrote |-> "none",
   outcome |-> "pending", answer |-> Undefined]

\* generateLinkDescription up to its first await: the HEAD request is issued
StartLinkTask(link) ==
  [linkUrl |-> link.linkUrl, selector |-> link.selector,
   element |-> link.element, pc |-> "fetchLinkMetadata",
   fetched |-> "pending", target |-> Undefined, title |-> Undefined,
   description |-> Undefined,
   calls |-> 0, generatedDescription |-> Undefined, wrote |-> "none",
   outcome |-> "pending", answer |-> Undefined]

\* generateButtonDescription up to its first await: describeButton is issued
StartButtonTask(button) ==
  [buttonText |-> button.buttonText, selector |-> button.selector,
   element |-> button.element,
   pc |-> "describeButton", calls |-> 1, generatedDescription |-> Undefined,
   wrote |-> "none", outcome |-> "pending", answer |-> Undefined]

\* xs.map(x => this.generate...(x)): one call per element, all issued at once
StartImageTasks(xs) == [i \in 1..Len(xs) |-> StartImageTask(xs[i])]
StartLinkTasks(xs) == [i \in 1..Len(xs) |-> StartLinkTask(xs[i])]
StartButtonTasks(xs) == [i \in 1..Len(xs) |-> StartButtonTask(xs[i])]

\* AllSettled as a race: fulfilled as soon as one promise is
AllSettledRace(tasks) == Len(tasks) = 0 \/ \E i \in 1..Len(tasks) : tasks[i].pc = "done"

\* Promise.all(promises) is fulfilled: every promise is (none ever rejects)
AllSettled(tasks) == \A i \in 1..Len(tasks) : tasks[i].pc = "done"

\* is400Error looking for the status code only
is400ErrorStatusOnly(e) == e.isError /\ Includes(e.message, "400")

\* is400Error taking every Error for a rejected fetch
is400ErrorAnyError(e) == e.isError

\* the error classification of generateAltTextForImage's inner catch
is400Error(e) ==
  /\ e.isError
  /\ \/ Includes(e.message, "400")
     \/ Includes(e.message, "BadRequestError")
     \/ Includes(e.message, "Error while downloading")

\* what analyzeAccessibility does once `step` has returned: the progress
\* label of the next call, then the call itself up to its first await
Proceed(step, imgs, lnks, btns) ==
  LET next == Following(variant, step) IN
  /\ progress' = Notify(next, imgs, lnks, btns)
  /\ steps' = IF next = "return" THEN steps ELSE Append(steps, next)
  /\ summaryCalls' = IF next = "generatePageSummary" THEN summaryCalls + 1 ELSE summaryCalls
  /\ IF next = "analyzeImages" /\ ~imgs.isArray
     THEN \* images.map is not a function
          /\ pc' = "rejected"
          /\ error' = "TypeError: images.map is not a function"
     ELSE /\ pc' = IF next = "return" THEN "resolved" ELSE next
          /\ error' = error
  /\ imageTasks' = IF next = "analyzeImages" /\ imgs.isArray
                   THEN StartImageTasks(imgs.items) ELSE imageTasks
  /\ linkTasks' = IF next = "analyzeLinks"
                  THEN StartLinkTasks(lnks.items) ELSE linkTasks
  /\ buttonTasks' = IF next = "analyzeButtons"
                    THEN StartButtonTasks(btns.items) ELSE buttonTasks

\* `throw error` out of analyzeAccessibility
Reject(e) ==
  /\ pc' = "rejected"
  /\ error' = e
  /\ UNCHANGED <<steps, progress, summaryCalls, imageTasks, linkTasks,
                 buttonTasks>>

NotAnswered == [answered |-> FALSE, success |-> FALSE, article |-> FALSE]

\* ExtractionFailed without the check of the article
ExtractionFailedSuccessOnly(r) == ~r.success

\* the check of extractPageContent
ExtractionFailed(r) == ~r.success \/ ~r.article

\* the service and the page before anything was called
NothingCalled ==
  /\ pc = "start"
  /\ readability = NotAnswered
  /\ images = Arr(<<>>)
  /\ links = Arr(<<>>)
  /\ buttons = Arr(<<>>)
  /\ pageSummary = NoSummary
  /\ imageTasks = <<>>
  /\ linkTasks = <<>>
  /\ buttonTasks = <<>>
  /\ imageAnalysis = Arr(<<>>)
  /\ linkAnalysis = Arr(<<>>)
  /\ buttonAnalysis = Arr(<<>>)
  /\ error = NoError
  /\ steps = <<>>
  /\ progress = <<>>
  /\ summaryCalls = 0
  /\ attr = [e \in Elements |-> AuthoredElement]

\* the content script loaded and idle, no default configuration asked for
NoMessages ==
  /\ content = ContentLoaded(PageHtml(""), NullValue)
  /\ config = NoPreset

Init ==
  /\ \/ /\ variant = "imagesOnly"
        /\ entry = "analyzeAccessibility"
        /\ hasCallback = FALSE
        /\ store \in [apiKey : BOOLEAN, navigator : BOOLEAN]
     \/ /\ variant = "full"
        /\ entry = "analyzeAccessibility"
        /\ hasCallback \in BOOLEAN
        /\ store \in [apiKey : BOOLEAN, navigator : BOOLEAN]
     \/ /\ variant = "full"
        /\ entry \in {"analyzeLinks", "analyzeButtons"}
        /\ hasCallback = FALSE
        /\ store = [apiKey |-> TRUE, navigator |-> TRUE]
  /\ document \in PagesOf(variant, entry)
  /\ scans = <<>>
  /\ NothingCalled
  /\ NoMessages

\* analyzeAccessibility(tabId, url, progressCallback) is called
analyzeAccessibility ==
  /\ pc = "start"
  /\ entry = "analyzeAccessibility"
  /\ pc' = "extractPageContent"
  /\ steps' = <<"extractPageContent">>
  /\ progress' = Notify("extractPageContent", images, links, buttons)
  /\ UNCHANGED <<content, config, document, scans, variant, entry, hasCallback,
                 store, readability, images, links, buttons, pageSummary,
                 imageTasks, linkTasks, buttonTasks, imageAnalysis,
                 linkAnalysis, buttonAnalysis, error, summaryCalls, attr>>

\* readabilityService.extractContent answers
extractPageContent ==
  /\ pc = "extractPageContent"
  /\ \E r \in [answered : {TRUE}, success : BOOLEAN, article : BOOLEAN] :
       /\ readability' = r
       /\ IF ExtractionFailed(r)
          THEN Reject("Failed to extract page content")
          ELSE Proceed("extractPageContent", images, links, buttons)
  /\ UNCHANGED <<content, config, document, scans, variant, entry, hasCallback,
                 store, images, links, buttons, pageSummary, imageAnalysis,
                 linkAnalysis, buttonAnalysis, attr>>

\* what an extractor returns: the result of its in-page function, or [] when
\* chrome.scripting.executeScript throws
Extracted(found) == {found, <<>>}

\* extractImages answers; the full variant keeps `.slice(0, 10).reverse`
extractImages ==
  /\ pc = "extractImages"
  /\ \E found \in Extracted(imagesInPage(document)) :
       LET imgs == IF variant = "imagesOnly" THEN Arr(found) ELSE ReverseMethod IN
       /\ images' = imgs
       /\ Proceed("extractImages", imgs, links, buttons)
  /\ UNCHANGED <<content, config, document, scans, variant, entry, hasCallback,
                 store, readability, links, buttons, pageSummary, imageAnalysis,
                 linkAnalysis, buttonAnalysis, attr>>

\* extractLinks answers: .slice(0, 10).reverse()
extractLinks ==
  /\ pc = "extractLinks"
  /\ \E found \in Extracted(linksInPage(document)) :
       LET lnks == Arr(Reverse(Slice(found, DemoTopN))) IN
       /\ links' = lnks
       /\ Proceed("extractLinks", images, lnks, buttons)
  /\ UNCHANGED <<content, config, document, scans, variant, entry, hasCallback,
                 store, readability, images, buttons, pageSummary,
                 imageAnalysis, linkAnalysis, buttonAnalysis, attr>>

\* extractButtons answers: .slice(0, 10).reverse()
extractButtons ==
  /\ pc = "extractButtons"
  /\ \E found \in Extracted(buttonsInPage(document)) :
       LET btns == Arr(Reverse(Slice(found, DemoTopN))) IN
       /\ buttons' = btns
       /\ Proceed("extractButtons", images, links, btns)
  /\ UNCHANGED <<content, config, document, scans, variant, entry, hasCallback,
                 store, readability, images, links, pageSummary, imageAnalysis,
                 linkAnalysis, buttonAnalysis, attr>>

\* the error getLLMConfiguration throws on what the two stores answer
LLMConfigurationError(stored) ==
  IF ~stored.apiKey THEN "OpenAI API key not configured"
  ELSE IF ~stored.navigator THEN "Navigator model configuration not found"
  ELSE NoError

\* the two stores answer
getLLMConfiguration ==
  /\ pc = "getLLMConfiguration"
  /\ IF LLMConfigurationError(store) # NoError
     THEN Reject(LLMConfigurationError(store))
     ELSE Proceed("getLLMConfiguration", images, links, buttons)
  /\ UNCHANGED <<content, config, document, scans, variant, entry, hasCallback,
                 store, readability, images, links, buttons, pageSummary,
                 imageAnalysis, linkAnalysis, buttonAnalysis, attr>>

\* the summary's model.invoke settles
generatePageSummary ==
  /\ pc = "generatePageSummary"
  /\ \/ \E text \in Texts :
          /\ pageSummary' = text
          /\ Proceed("generatePageSummary", images, links, buttons)
     \/ \E e \in GatewayErrors :
          /\ Reject(e.message[1])
          /\ UNCHANGED pageSummary
  /\ UNCHANGED <<content, config, document, scans, variant, entry, hasCallback,
                 store, readability, images, links, buttons, imageAnalysis,
                 linkAnalysis, buttonAnalysis, attr>>

\* ---------------------------------------------------------- the DOM writer
\* what stands, when an in-page script runs, where document.querySelector
\* looks for the selector: the element loaded or not, another element, nothing
PageElements == {"imgComplete", "img", "a", "other", "none"}

\* AltTextApplied putting the prefix in front of a value that has it already
AltTextAppliedStacking(a, target, element, altText) ==
  IF element = "none"
  THEN a
  ELSE IF element \in {"imgComplete", "img"}
  THEN [a EXCEPT ![target].alt =
          IF @[1] = ProvenancePrefix THEN <<ProvenancePrefix>> \o @ ELSE Tagged(altText)]
  ELSE [a EXCEPT ![target].ariaLabel =
          IF @[1] = ProvenancePrefix THEN <<ProvenancePrefix>> \o @ ELSE Tagged(altText)]

\* AltTextApplied labelling the page's first element when it finds none
AltTextAppliedBlind(a, target, element, altText) ==
  IF element \in {"imgComplete", "img"}
  THEN [a EXCEPT ![target].alt = Tagged(altText)]
  ELSE [a EXCEPT ![target].ariaLabel = Tagged(altText)]

\* the in-page function of applyAltTextToDOM
AltTextApplied(a, target, element, altText) ==
  IF element = "none"
  THEN a
  ELSE IF element \in {"imgComplete", "img"}
  THEN [a EXCEPT ![target].alt = Tagged(altText)]
  ELSE [a EXCEPT ![target].ariaLabel = Tagged(altText)]

\* the in-page function of applyLinkTitleToDOM
LinkTitleApplied(a, target, element, title) ==
  IF element = "a" THEN [a EXCEPT ![target].title = Tagged(title)] ELSE a

\* the in-page function of applyButtonAriaLabelToDOM
ButtonAriaLabelApplied(a, target, element, ariaLabel) ==
  IF element # "none" THEN [a EXCEPT ![target].ariaLabel = Tagged(ariaLabel)] ELSE a

\* the attribute each in-page function sets on the element it found
AltTextWritten(element) ==
  IF element = "none" THEN "none"
  ELSE IF element \in {"imgComplete", "img"} THEN "alt" ELSE "ariaLabel"
LinkTitleWritten(element) == IF element = "a" THEN "title" ELSE "none"
ButtonAriaLabelWritten(element) == IF element # "none" THEN "ariaLabel" ELSE "none"

\* -------------------------------------------------------- image enrichment
\* the in-page function of fetchImageAsBase64, then `if (base64Data)`
\*   canvas:  "jpeg" toDataURL('image/jpeg') answers; "png" it throws and
\*            toDataURL('image/png') answers; "noContext" getContext is null;
\*            "tainted" both toDataURL calls throw
\*   fetched: "ok", "notOk" (response.ok false), "throws"
InPageBase64(element, canvas, fetched) ==
  IF element = "imgComplete"
  THEN CASE canvas = "jpeg" -> "data:image/jpeg"
         [] canvas = "png" -> "data:image/png"
         [] OTHER -> Null
  ELSE IF fetched = "ok" THEN "data:blob" ELSE Null

\* which branch the in-page function of fetchImageAsBase64 takes
InPageRoute(element) == IF element = "imgComplete" THEN "canvas" ELSE "fetch"

\* a failure is fetch-rejected: an Error whose message names the rejected
\* request or the failed download
FetchRejected(e) ==
  e.isError /\ \E part \in {"400", "BadRequestError", "Error while downloading"} :
                  Includes(e.message, part)

\* ImageAnswered applying the text only `if (generatedAlt)`
ImageAnsweredSkippingEmpty(t, text) ==
  [t EXCEPT !.pc = IF text = "" THEN "done" ELSE "write", !.generatedAlt = text,
            !.first = IF t.pc = "direct" THEN "ok" ELSE t.first,
            !.outcome = "generated", !.answer = text]

\* generateAltTextForImage after a describeImage call answered `text`:
\* applyAltTextToDOM is called
ImageAnswered(t, text) ==
  [t EXCEPT !.pc = "write", !.generatedAlt = text,
            !.first = IF t.pc = "direct" THEN "ok" ELSE t.first,
            !.outcome = "generated", !.answer = text]

\* ImageFailed with the fallback entered after a failed retry as well
ImageFailedRetriesAgain(t, e) ==
  LET seenFirst == IF t.pc # "direct" THEN t.first
                   ELSE IF FetchRejected(e) THEN "fetchRejected" ELSE "otherFailure"
  IN IF is400Error(e)
     THEN [t EXCEPT !.pc = "fallback", !.first = seenFirst]
     ELSE [t EXCEPT !.pc = "done", !.generatedAlt = Undefined, !.first = seenFirst,
                    !.outcome = IF t.pc = "direct" THEN "directFailed" ELSE "retryFailed"]

\* generateAltTextForImage after a describeImage call threw `e`: the inner
\* catch of the direct call, or the outer catch
ImageFailed(t, e) ==
  LET seenFirst == IF t.pc # "direct" THEN t.first
                   ELSE IF FetchRejected(e) THEN "fetchRejected" ELSE "otherFailure"
  IN IF t.pc = "direct" /\ is400Error(e)
     THEN [t EXCEPT !.pc = "fallback", !.first = seenFirst]
     ELSE [t EXCEPT !.pc = "done", !.generatedAlt = Undefined, !.first = seenFirst,
                    !.outcome = IF t.pc = "direct" THEN "directFailed" ELSE "retryFailed"]

\* ImageConverted reporting an empty text, not undefined, without a data URI
ImageConvertedEmptyText(t, route, seen, base64Image) ==
  IF base64Image # Null
  THEN [t EXCEPT !.pc = "retry", !.route = route, !.seen = seen,
                 !.base64 = base64Image, !.calls = Append(t.calls, base64Image)]
  ELSE [t EXCEPT !.pc = "done", !.route = route, !.seen = seen,
                 !.generatedAlt = "", !.outcome = "noDataURI"]

\* generateAltTextForImage after fetchImageAsBase64 returned
ImageConverted(t, route, seen, base64Image) ==
  IF base64Image # Null
  THEN [t EXCEPT !.pc = "retry", !.route = route, !.seen = seen,
                 !.base64 = base64Image, !.calls = Append(t.calls, base64Image)]
  ELSE [t EXCEPT !.pc = "done", !.route = route, !.seen = seen,
                 !.generatedAlt = Undefined, !.outcome = "noDataURI"]

ImagePhaseFrame ==
  UNCHANGED <<content, config, document, scans, variant, entry, hasCallback,
              store, pc, readability, images, links, buttons, pageSummary,
              linkTasks, buttonTasks, imageAnalysis, linkAnalysis,
              buttonAnalysis, error, steps, progress, summaryCalls>>

\* a describeImage call (visionModel.invoke) of image i settles
describeImage(i) ==
  /\ pc = "analyzeImages"
  /\ imageTasks[i].pc \in {"direct", "retry"}
  /\ \/ \E text \in Texts :
          imageTasks' = [imageTasks EXCEPT ![i] = ImageAnswered(imageTasks[i], text)]
     \/ \E e \in GatewayErrors :
          imageTasks' = [imageTasks EXCEPT ![i] = ImageFailed(imageTasks[i], e)]
  /\ UNCHANGED attr
  /\ ImagePhaseFrame

\* fetchImageAsBase64 of image i returns
fetchImageAsBase64(i) ==
  /\ pc = "analyzeImages"
  /\ imageTasks[i].pc = "fallback"
  /\ \/ \* chrome.scripting.executeScript throws
        imageTasks' = [imageTasks EXCEPT
                         ![i] = ImageConverted(imageTasks[i], "scriptError", "unseen", Null)]
     \/ \E element \in PageElements :
        \E canvas \in (IF element = "imgComplete"
                       THEN {"jpeg", "png", "noContext", "tainted"} ELSE {"unused"}),
           fetched \in (IF element = "imgComplete"
                        THEN {"unsent"} ELSE {"ok", "notOk", "throws"}) :
          imageTasks' = [imageTasks EXCEPT
                           ![i] = ImageConverted(imageTasks[i], InPageRoute(element),
                                    IF element = "imgComplete" THEN "loaded" ELSE "notLoaded",
                                    InPageBase64(element, canvas, fetched))]
  /\ UNCHANGED attr
  /\ ImagePhaseFrame

\* applyAltTextToDOM of image i returns
applyAltTextToDOM(i) ==
  /\ pc = "analyzeImages"
  /\ imageTasks[i].pc = "write"
  /\ \E scriptRuns \in BOOLEAN :
     \E element \in (IF scriptRuns THEN PageElements ELSE {"none"}) :
       LET t == imageTasks[i]
           found == IF scriptRuns THEN element ELSE "none"
       IN /\ attr' = AltTextApplied(attr, querySelector(document, t.selector), found,
                                    t.generatedAlt)
          /\ imageTasks' = [imageTasks EXCEPT ![i] = [t EXCEPT !.pc = "done",
                                                               !.wrote = AltTextWritten(found)]]
  /\ ImagePhaseFrame

\* what a batch method returns: one entry per call, in call order
ImageEntry(t) == [imageUrl |-> t.imageUrl, generatedAlt |-> t.generatedAlt]
LinkEntry(t) == [linkUrl |-> t.linkUrl, generatedDescription |-> t.generatedDescription]
ButtonEntry(t) == [buttonText |-> t.buttonText, generatedDescription |-> t.generatedDescription]
ImageEntries(tasks) == Arr([i \in 1..Len(tasks) |-> ImageEntry(tasks[i])])
LinkEntries(tasks) == Arr([i \in 1..Len(tasks) |-> LinkEntry(tasks[i])])
ButtonEntries(tasks) == Arr([i \in 1..Len(tasks) |-> ButtonEntry(tasks[i])])

\* analyzeImages returns: its Promise.all is fulfilled
analyzeImagesReturn ==
  /\ pc = "analyzeImages"
  /\ AllSettled(imageTasks)
  /\ imageAnalysis' = ImageEntries(imageTasks)
  /\ Proceed("analyzeImages", images, links, buttons)
  /\ UNCHANGED <<content, config, document, scans, variant, entry, hasCallback,
                 store, readability, images, links, buttons, pageSummary,
                 linkAnalysis, buttonAnalysis, attr>>

\* --------------------------------------------------------- link enrichment
\* the target's HTML, as far as the two patterns of fetchLinkMetadata see it:
\* the og:title / twitter:title meta, the <title> tag, the description meta
Htmls == [metaTitle : {Undefined, "Shoes"}, titleTag : {Undefined, "Shop"},
          metaDescription : {Undefined, "Buy shoes"}]

\* the target served no HTML
NoHtml == [metaTitle |-> Undefined, titleTag |-> Undefined, metaDescription |-> Undefined]

NoMetadata == [found |-> FALSE, title |-> Undefined, description |-> Undefined]

\* fetchLinkMetadata: HEAD, and GET with the scrape only when HEAD is not ok
\*   head, get: "ok", "notOk" (response.ok false), "throws"
fetchLinkMetadata(head, get, html) ==
  IF head = "notOk" /\ get = "ok"
  THEN [found |-> TRUE,
        title |-> IF html.metaTitle # Undefined THEN html.metaTitle ELSE html.titleTag,
        description |-> html.metaDescription]
  ELSE NoMetadata

\* how the requests of fetchLinkMetadata went: the HEAD answered ok, the GET
\* after a HEAD that was not ok answered ok and its body was read, or neither
Reached(head, get) ==
  IF head = "ok" THEN "headOk" ELSE IF head = "notOk" /\ get = "ok" THEN "scraped" ELSE "failed"

\* LinkMetadataFetched giving the link up when the target gave no metadata
LinkMetadataFetchedEscalated(t, reached, html, metadata) ==
  LET description == IF metadata.description # Undefined THEN metadata.description
                     ELSE IF metadata.title # Undefined THEN metadata.title ELSE ""
      t1 == [t EXCEPT !.fetched = reached, !.target = html.metaDescription,
                      !.title = metadata.title, !.description = metadata.description]
  IN IF metadata.found /\ description # ""
     THEN [t1 EXCEPT !.pc = "write", !.generatedDescription = description,
                     !.outcome = "generated", !.answer = description]
     ELSE IF metadata.found
     THEN [t1 EXCEPT !.pc = "describeLink", !.calls = t.calls + 1]
     ELSE [t1 EXCEPT !.pc = "done", !.outcome = "failed"]

\* generateLinkDescription after fetchLinkMetadata returned: the metadata is
\* used and applyLinkTitleToDOM called, or describeLink (model.invoke) is issued;
\* `target` keeps the description meta of the target's HTML, read or not
LinkMetadataFetched(t, reached, html, metadata) ==
  LET description == IF metadata.description # Undefined THEN metadata.description
                     ELSE IF metadata.title # Undefined THEN metadata.title ELSE ""
      t1 == [t EXCEPT !.fetched = reached, !.target = html.metaDescription,
                      !.title = metadata.title, !.description = metadata.description]
  IN IF /\ metadata.found
        /\ (metadata.title # Undefined \/ metadata.description # Undefined)
        /\ description # ""
     THEN [t1 EXCEPT !.pc = "write", !.generatedDescription = description,
                     !.outcome = "generated", !.answer = description]
     ELSE [t1 EXCEPT !.pc = "describeLink", !.calls = t.calls + 1]

\* generateLinkDescription / generateButtonDescription after model.invoke
\* answered `text`: the DOM writer is called
DescriptionAnswered(t, text) ==
  [t EXCEPT !.pc = "write", !.generatedDescription = text,
            !.outcome = "generated", !.answer = text]
\* DescriptionFailed reporting an empty text, not undefined
DescriptionFailedEmptyText(t) ==
  [t EXCEPT !.pc = "done", !.generatedDescription = "", !.outcome = "failed"]

\* ... after model.invoke threw: the catch block
DescriptionFailed(t) ==
  [t EXCEPT !.pc = "done", !.generatedDescription = Undefined, !.outcome = "failed"]

LinkPhaseFrame ==
  UNCHANGED <<content, config, document, scans, variant, entry, hasCallback,
              store, pc, readability, images, links, buttons, pageSummary,
              imageTasks, buttonTasks, imageAnalysis, linkAnalysis,
              buttonAnalysis, error, steps, progress, summaryCalls>>

\* fetchLinkMetadata of link i returns
resolveLinkMetadata(i) ==
  /\ pc = "analyzeLinks"
  /\ linkTasks[i].pc = "fetchLinkMetadata"
  /\ \E head \in {"ok", "notOk", "throws"} :
     \E get \in (IF head = "notOk" THEN {"ok", "notOk", "throws"} ELSE {"unsent"}) :
     \E html \in (IF head = "ok" \/ get = "ok" THEN Htmls ELSE {NoHtml}) :
       linkTasks' = [linkTasks EXCEPT ![i] =
                       LinkMetadataFetched(linkTasks[i], Reached(head, get), html,
                         fetchLinkMetadata(head, get, html))]
  /\ UNCHANGED attr
  /\ LinkPhaseFrame

\* the describeLink call (model.invoke) of link i settles
describeLink(i) ==
  /\ pc = "analyzeLinks"
  /\ linkTasks[i].pc = "describeLink"
  /\ \/ \E text \in Texts :
          linkTasks' = [linkTasks EXCEPT ![i] = DescriptionAnswered(linkTasks[i], text)]
     \/ \E e \in GatewayErrors :
          linkTasks' = [linkTasks EXCEPT ![i] = DescriptionFailed(linkTasks[i])]
  /\ UNCHANGED attr
  /\ LinkPhaseFrame

\* applyLinkTitleToDOM of link i returns
applyLinkTitleToDOM(i) ==
  /\ pc = "analyzeLinks"
  /\ linkTasks[i].pc = "write"
  /\ \E scriptRuns \in BOOLEAN :
     \E element \in (IF scriptRuns THEN PageElements ELSE {"none"}) :
       LET t == linkTasks[i]
           found == IF scriptRuns THEN element ELSE "none"
       IN /\ attr' = LinkTitleApplied(attr, querySelector(document, t.selector), found,
                                      t.generatedDescription)
          /\ linkTasks' = [linkTasks EXCEPT ![i] = [t EXCEPT !.pc = "done",
                                                             !.wrote = LinkTitleWritten(found)]]
  /\ LinkPhaseFrame

\* analyzeLinks returns: its Promise.all is fulfilled
analyzeLinksReturn ==
  /\ pc = "analyzeLinks"
  /\ AllSettled(linkTasks)
  /\ linkAnalysis' = LinkEntries(linkTasks)
  /\ IF entry = "analyzeAccessibility"
     THEN Proceed("analyzeLinks", images, links, buttons)
     ELSE /\ pc' = "returned"
          /\ UNCHANGED <<error, steps, progress, summaryCalls, imageTasks,
                         linkTasks, buttonTasks>>
  /\ UNCHANGED <<content, config, document, scans, variant, entry, hasCallback,
                 store, readability, images, links, buttons, pageSummary,
                 imageAnalysis, buttonAnalysis, attr>>

\* ------------------------------------------------------- button enrichment
ButtonPhaseFrame ==
  UNCHANGED <<content, config, document, scans, variant, entry, hasCallback,
              store, pc, readability, images, links, buttons, pageSummary,
              imageTasks, linkTasks, imageAnalysis, linkAnalysis,
              buttonAnalysis, error, steps, progress, summaryCalls>>

\* the describeButton call (model.invoke) of button i settles
describeButton(i) ==
  /\ pc = "analyzeButtons"
  /\ buttonTasks[i].pc = "describeButton"
  /\ \/ \E text \in Texts :
          buttonTasks' = [buttonTasks EXCEPT ![i] = DescriptionAnswered(buttonTasks[i], text)]
     \/ \E e \in GatewayErrors :
          buttonTasks' = [buttonTasks EXCEPT ![i] = DescriptionFailed(buttonTasks[i])]
  /\ UNCHANGED attr
  /\ ButtonPhaseFrame

\* applyButtonAriaLabelToDOM of button i returns
applyButtonAriaLabelToDOM(i) ==
  /\ pc = "analyzeButtons"
  /\ buttonTasks[i].pc = "write"
  /\ \E scriptRuns \in BOOLEAN :
     \E element \in (IF scriptRuns THEN PageElements ELSE {"none"}) :
       LET t == buttonTasks[i]
           found == IF scriptRuns THEN element ELSE "none"
       IN /\ attr' = ButtonAriaLabelApplied(attr, querySelector(document, t.selector),
                                            found, t.generatedDescription)
          /\ buttonTasks' = [buttonTasks EXCEPT ![i] = [t EXCEPT !.pc = "done",
                                                                 !.wrote = ButtonAriaLabelWritten(found)]]
  /\ ButtonPhaseFrame

\* analyzeButtons returns: its Promise.all is fulfilled
analyzeButtonsReturn ==
  /\ pc = "analyzeButtons"
  /\ AllSettled(buttonTasks)
  /\ buttonAnalysis' = ButtonEntries(buttonTasks)
  /\ IF entry = "analyzeAccessibility"
     THEN Proceed("analyzeButtons", images, links, buttons)
     ELSE /\ pc' = "returned"
          /\ UNCHANGED <<error, steps, progress, summaryCalls, imageTasks,
                         linkTasks, buttonTasks>>
  /\ UNCHANGED <<content, config, document, scans, variant, entry, hasCallback,
                 store, readability, images, links, buttons, pageSummary,
                 imageAnalysis, linkAnalysis, attr>>

\* ------------------------------------------- the batch methods, as units
\* analyzeLinks(tabId, links, providerConfig, modelConfig, pageSummary) is called
analyzeLinks ==
  /\ pc = "start"
  /\ entry = "analyzeLinks"
  /\ \E list \in {linksInPage(document)}, summary \in Texts :
       /\ links' = Arr(list)
       /\ pageSummary' = summary
       /\ linkTasks' = StartLinkTasks(list)
  /\ pc' = "analyzeLinks"
  /\ steps' = <<"analyzeLinks">>
  /\ UNCHANGED <<content, config, document, scans, variant, entry, hasCallback,
                 store, readability, images, buttons, imageTasks, buttonTasks,
                 imageAnalysis, linkAnalysis, buttonAnalysis, error, progress,
                 summaryCalls, attr>>

\* analyzeButtons(tabId, buttons, providerConfig, modelConfig, pageSummary) is called
analyzeButtons ==
  /\ pc = "start"
  /\ entry = "analyzeButtons"
  /\ \E list \in {buttonsInPage(document)}, summary \in Texts :
       /\ buttons' = Arr(list)
       /\ pageSummary' = summary
       /\ buttonTasks' = StartButtonTasks(list)
  /\ pc' = "analyzeButtons"
  /\ steps' = <<"analyzeButtons">>
  /\ UNCHANGED <<content, config, document, scans, variant, entry, hasCallback,
                 store, readability, images, links, imageTasks, linkTasks,
                 imageAnalysis, linkAnalysis, buttonAnalysis, error, progress,
                 summaryCalls, attr>>

Next ==
  \/ analyzeAccessibility
  \/ extractPageContent
  \/ extractImages
  \/ extractLinks
  \/ extractButtons
  \/ getLLMConfiguration
  \/ generatePageSummary
  \/ \E i \in 1..Len(imageTasks) : describeImage(i)
  \/ \E i \in 1..Len(imageTasks) : fetchImageAsBase64(i)
  \/ \E i \in 1..Len(imageTasks) : applyAltTextToDOM(i)
  \/ analyzeImagesReturn
  \/ analyzeLinks
  \/ \E i \in 1..Len(linkTasks) : resolveLinkMetadata(i)
  \/ \E i \in 1..Len(linkTasks) : describeLink(i)
  \/ \E i \in 1..Len(linkTasks) : applyLinkTitleToDOM(i)
  \/ analyzeLinksReturn
  \/ analyzeButtons
  \/ \E i \in 1..Len(buttonTasks) : describeButton(i)
  \/ \E i \in 1..Len(buttonTasks) : applyButtonAriaLabelToDOM(i)
  \/ analyzeButtonsReturn

Spec == Init /\ [][Next]_vars

\* ------------------------------------------ the extractors, scan by scan
\* the signals the scoring reads, in every combination
\* the ancestries of an element: the indicators of isInMainContent by tag, by
\* class and by id, alone, nested either way round, both on one element
Ancestries ==
  { InMain, InNav, <<Plain("div")>>,
    <<Plain("aside"), Plain("article")>>, <<Plain("article"), Plain("nav")>>,
    <<El("div", <<"content">>, <<>>)>>, <<El("ul", <<"menu">>, <<>>), Plain("main")>>,
    <<El("div", <<>>, <<"main", "-col">>)>>,
    <<El("div", <<>>, <<"article", "-body">>), Plain("footer")>>,
    <<El("div", <<"ad", "-slot">>, <<>>), Plain("main")>>,
    <<El("div", <<"banner">>, <<>>), Plain("article")>>,
    <<El("div", <<"main", "-nav">>, <<>>)>> }
ImageSizes ==
  {<<400, 300>>, <<200, 150>>, <<100, 80>>, <<40, 40>>, <<400, 40>>,
   <<300, 200>>, <<150, 100>>, <<50, 50>>}
ImageNodes ==
  { [tag |-> tag, src |-> <<"http", "://x/", "1", ".jpg">>, id |-> "",
     ancestors |-> ancestors, width |-> size[1], height |-> size[2],
     className |-> className, figure |-> figure] :
      tag \in {"img", "div"}, ancestors \in Ancestries, size \in ImageSizes,
      className \in {<<>>, <<"hero", "-image">>, <<"main", "-photo">>}, figure \in BOOLEAN }
LinkTexts ==
  {Text("faq", 3), Text("more", 4), Text("read more", 9), Text("click here", 10),
   Text("pricing", 7), Text("privacy", 99), Text("terms", 100), EmptyText}
LinkNodes ==
  { [tag |-> "a", href |-> <<"https:", "//x/", "1">>, text |-> text, id |-> "",
     ancestors |-> ancestors, className |-> className] :
      ancestors \in Ancestries, className \in {<<>>, <<"btn", "-large">>}, text \in LinkTexts }
ButtonNodes ==
  { [tag |-> "button", text |-> text, ariaLabel |-> ariaLabel, id |-> "",
     ancestors |-> ancestors, className |-> className] :
      ancestors \in Ancestries, className \in {<<>>, <<"submit">>},
      text \in {EmptyText, Text("send", 4), Text("subscribe", 50)},
      ariaLabel \in {EmptyText, Text("send", 4), Text("close", 5)} }

\* the k-th link and button of a long page: `rising` puts the lowest score
\* first in the document, otherwise the scores alternate
PatternLink(k, rising) ==
  [tag |-> "a", href |-> <<"https:", "//x/", ToString(k)>>,
   text |-> IF rising THEN (IF k = 1 THEN Text("faq", 3) ELSE Text("pricing", 7))
            ELSE (IF k % 3 = 0 THEN Text("more", 4) ELSE Text("pricing", 7)),
   id |-> ToString(k),
   ancestors |-> IF (IF rising THEN k > 1 ELSE k % 2 = 0) THEN InMain ELSE InNav,
   className |-> IF ~rising /\ k % 4 = 0 THEN <<"cta">> ELSE <<>>]
PatternButton(k, rising) ==
  [tag |-> "button",
   text |-> IF rising THEN Text("send", 4)
            ELSE (IF k % 2 = 0 THEN EmptyText ELSE Text("subscribe", 50)),
   ariaLabel |-> IF rising \/ k % 2 = 0 THEN EmptyText ELSE Text("close", 5),
   id |-> ToString(k),
   ancestors |-> IF (IF rising THEN k > 1 ELSE k % 2 = 0) THEN InMain ELSE InNav,
   className |-> IF ~rising /\ k % 2 = 0 THEN <<"primary">> ELSE <<>>]
LongPage(n, rising) ==
  [img |-> <<>>,
   a |-> [k \in 1..n |-> PatternLink(k, rising)],
   button |-> [k \in 1..n |-> PatternButton(k, rising)]]

\* a page of images and background containers in main content: a container
\* first, a small and a large img, a second container (with `twice`, of the
\* URL of the small img)
MixedImage(k, tag, size) ==
  [tag |-> tag, src |-> <<"http", "://x/", ToString(k), ".jpg">>, id |-> ToString(k),
   ancestors |-> InMain, width |-> size[1], height |-> size[2],
   className |-> <<>>, figure |-> FALSE]
MixedImages(twice) ==
  [EmptyPage EXCEPT !.img =
     <<MixedImage(1, "div", <<400, 300>>), MixedImage(2, "img", <<100, 80>>),
       MixedImage(3, "img", <<400, 300>>),
       MixedImage(IF twice THEN 2 ELSE 4, "div", <<400, 300>>)>>]

\* two sibling links of one tag and class, the first without text (an icon)
IconThenTextLink ==
  [EmptyPage EXCEPT !.a = <<[PlainLink(1, FALSE) EXCEPT !.text = EmptyText],
                            PlainLink(2, FALSE)>>]

\* the pages scanned: one element with each combination of signals, long
\* pages, pages of siblings with and without ids, pages of mixed images
ScanPages ==
  {[EmptyPage EXCEPT !.img = <<node>>] : node \in ImageNodes}
  \cup {[EmptyPage EXCEPT !.a = <<node>>] : node \in LinkNodes}
  \cup {[EmptyPage EXCEPT !.button = <<node>>] : node \in ButtonNodes}
  \cup {LongPage(n, rising) : n \in 0..MaxPage, rising \in BOOLEAN}
  \cup {PlainPage(ids, n, n, n) : ids \in BOOLEAN, n \in 1..MaxImages}
  \cup {MixedImages(twice) : twice \in BOOLEAN}
  \cup {IconThenTextLink}

ScanInit ==
  /\ variant = "full"
  /\ entry = "extract"
  /\ hasCallback = FALSE
  /\ store = [apiKey |-> TRUE, navigator |-> TRUE]
  /\ document \in ScanPages
  /\ scans = <<>>
  /\ NothingCalled
  /\ NoMessages

ScanFrame ==
  UNCHANGED <<content, config, document, variant, entry, hasCallback, store, pc,
              readability, images, links, buttons, pageSummary, imageTasks,
              linkTasks, buttonTasks, imageAnalysis, linkAnalysis,
              buttonAnalysis, error, steps, progress, summaryCalls, attr>>

\* the in-page function of extractImages runs on the page
extractImagesInPage ==
  /\ Len(scans) < MaxScans
  /\ scans' = Append(scans, [kind |-> "img", found |-> imagesInPage(document)])
  /\ ScanFrame

\* the in-page function of extractLinks runs on the page
extractLinksInPage ==
  /\ Len(scans) < MaxScans
  /\ scans' = Append(scans, [kind |-> "a", found |-> linksInPage(document)])
  /\ ScanFrame

\* the in-page function of extractButtons runs on the page
extractButtonsInPage ==
  /\ Len(scans) < MaxScans
  /\ scans' = Append(scans, [kind |-> "button", found |-> buttonsInPage(document)])
  /\ ScanFrame

ScanNext ==
  \/ extractImagesInPage
  \/ extractLinksInPage
  \/ extractButtonsInPage

ScanSpec == ScanInit /\ [][ScanNext]_vars

\* ------------------------------------------ the content script, by message
MaxMessages == 4

\* the first two statements of applyReadabilityMode
SaveOriginalPage(c) ==
  [c EXCEPT !.originalBodyHTML = Some(c.body.innerHTML),
            !.originalBodyStyle = c.body.style]

\* applyReadabilityMode(article): the original is saved, then the reader view
\* is built, which throws on an article that is undefined, then the body is
\* replaced; `threw` tells whether it threw
applyReadabilityMode(c, article) ==
  LET saved == SaveOriginalPage(c) IN
  IF article = Undefined
  THEN [threw |-> TRUE, c |-> saved]
  ELSE [threw |-> FALSE,
        c |-> [saved EXCEPT !.body = [innerHTML |-> ReaderHtml, style |-> Some(""),
                                      nodes |-> c.body.nodes + 1],
                            !.readabilityModeActive = TRUE,
                            !.before = IF c.before = NullValue
                                       THEN Some([innerHTML |-> c.body.innerHTML,
                                                  style |-> c.body.style])
                                       ELSE c.before]]

\* restoreOriginalPage()
restoreOriginalPage(c) ==
  IF c.originalBodyHTML # NullValue
  THEN [c EXCEPT !.body = [innerHTML |-> c.originalBodyHTML[1],
                           style |-> c.originalBodyStyle,
                           nodes |-> c.body.nodes + 1],
                 !.originalBodyHTML = NullValue, !.originalBodyStyle = NullValue,
                 !.readabilityModeActive = FALSE]
  ELSE [c EXCEPT !.readabilityModeActive = FALSE]

\* sendResponse(...); `resulting` keeps readabilityModeActive as the handler
\* left it
Respond(c, type, success, active) ==
  [c EXCEPT !.responses = Append(c.responses,
              [type |-> type, success |-> success, active |-> active,
               resulting |-> c.readabilityModeActive])]

\* the first block of highlightElement: the previous highlight is taken off
\* the element the script holds, which may no longer be in the document
RemovePreviousHighlight(c) ==
  IF c.highlightedElement = NullValue THEN c
  ELSE LET held == c.highlightedElement[1]
           inDocument == held.nodes = c.body.nodes
           inline == IF inDocument THEN c.body.innerHTML.inline[held.name] ELSE NoInline
           restored ==
             Inline(IF c.originalBorder # NullValue THEN c.originalBorder[1] ELSE inline.border,
                    IF c.originalOutline # NullValue THEN c.originalOutline[1] ELSE inline.outline)
           cleared == [c EXCEPT !.highlightedElement = NullValue,
                                !.originalBorder = NullValue,
                                !.originalOutline = NullValue]
       IN IF inDocument
          THEN [cleared EXCEPT !.body.innerHTML.inline[held.name] = restored]
          ELSE cleared

\* document.querySelector(selector) of the content script
querySelectorInBody(body, selector) == selector \in DOMAIN body.innerHTML.inline

\* highlightElement(selector); `threw` tells whether it threw
highlightElement(c, selector) ==
  LET c1 == RemovePreviousHighlight(c) IN
  IF querySelectorInBody(c1.body, selector)
  THEN [threw |-> FALSE,
        c |-> [c1 EXCEPT
                 !.originalBorder = Some(c1.body.innerHTML.inline[selector].border),
                 !.originalOutline = Some(c1.body.innerHTML.inline[selector].outline),
                 !.body.innerHTML.inline[selector] = Inline(HighlightBorder, HighlightOutline),
                 !.highlightedElement = Some([nodes |-> c1.body.nodes, name |-> selector])]]
  ELSE [threw |-> TRUE, c |-> c1]

ContentInit ==
  /\ variant = "full"
  /\ entry = "content"
  /\ hasCallback = FALSE
  /\ store = [apiKey |-> TRUE, navigator |-> TRUE]
  /\ document = EmptyPage
  /\ scans = <<>>
  /\ NothingCalled
  /\ \E border \in {"", "1px solid red"}, style \in {NullValue, Some("margin: 0")} :
       content = ContentLoaded(PageHtml(border), style)
  /\ config = NoPreset

ContentFrame ==
  UNCHANGED <<config, document, scans, variant, entry, hasCallback, store, pc,
              readability, images, links, buttons, pageSummary, imageTasks,
              linkTasks, buttonTasks, imageAnalysis, linkAnalysis,
              buttonAnalysis, error, steps, progress, summaryCalls, attr>>

\* the listener receives { type: 'toggle_readability_mode', article }
toggle_readability_mode ==
  /\ Len(content.responses) < MaxMessages
  /\ \E article \in {Undefined, "article"} :
       content' =
         IF content.readabilityModeActive
         THEN Respond(restoreOriginalPage(content), "toggle_readability_mode",
                      TRUE, Some(FALSE))
         ELSE LET applied == applyReadabilityMode(content, article) IN
              IF applied.threw
              THEN Respond(applied.c, "toggle_readability_mode", FALSE, NullValue)
              ELSE Respond(applied.c, "toggle_readability_mode", TRUE, Some(TRUE))
  /\ ContentFrame

\* the listener receives { type: 'highlight_element', selector }
highlight_element ==
  /\ Len(content.responses) < MaxMessages
  /\ \E selector \in PageNames \cup ReaderNames \cup {"#missing"} :
       LET highlighted == highlightElement(content, selector) IN
       content' = Respond(highlighted.c, "highlight_element", ~highlighted.threw,
                          NullValue)
  /\ ContentFrame

ContentNext ==
  \/ toggle_readability_mode
  \/ highlight_element

ContentSpec == ContentInit /\ [][ContentNext]_vars

\* ------------------------------- the default configuration, call by call
MaxCalls == 2

\* defaultOpenAIKey.trim()
Trim(key) == IF key = "  " THEN "" ELSE key

\* `!defaultOpenAIKey || defaultOpenAIKey.trim() === ''`
NoDefaultKey(key) == key = Undefined \/ key = "" \/ Trim(key) = ""

\* initializeDefaultConfig up to its first await: it returns without a key,
\* and otherwise asks llmProviderStore.hasProvider; `writes` counts the writes
\* to storage it has completed
StartPreset(key) ==
  [pc |-> IF NoDefaultKey(key) THEN "returned" ELSE "hasProvider",
   hasOpenAI |-> NullValue, writes |-> 0, outcome |-> "resolved"]

\* the catch block: the error is logged and the function returns
PresetFailed(call) == [call EXCEPT !.pc = "returned"]

ConfigInit ==
  /\ variant = "full"
  /\ entry = "config"
  /\ hasCallback = FALSE
  /\ \E openAI, apiKey, navigator, planner \in BOOLEAN :
       /\ apiKey => openAI
       /\ store = [openAI |-> openAI, apiKey |-> apiKey, navigator |-> navigator,
                   planner |-> planner, preset |-> FALSE]
  /\ document = EmptyPage
  /\ scans = <<>>
  /\ NothingCalled
  /\ content = ContentLoaded(PageHtml(""), NullValue)
  /\ \E key \in {Undefined, "", "  ", "sk-default"} :
       config = [DEFAULT_OPENAI_KEY |-> key, calls |-> << >>]

ConfigFrame ==
  UNCHANGED <<content, document, scans, variant, entry, hasCallback, pc,
              readability, images, links, buttons, pageSummary, imageTasks,
              linkTasks, buttonTasks, imageAnalysis, linkAnalysis,
              buttonAnalysis, error, steps, progress, summaryCalls, attr>>

\* initializeDefaultConfig() is called
initializeDefaultConfig ==
  /\ Len(config.calls) < MaxCalls
  /\ config' = [config EXCEPT !.calls = Append(@, StartPreset(config.DEFAULT_OPENAI_KEY))]
  /\ UNCHANGED store
  /\ ConfigFrame

\* llmProviderStore.hasProvider(OpenAI) of call i settles
hasProvider(i) ==
  /\ config.calls[i].pc = "hasProvider"
  /\ \/ config' = [config EXCEPT !.calls[i] = PresetFailed(@)]
     \/ config' = [config EXCEPT !.calls[i] =
                     [@ EXCEPT !.hasOpenAI = Some(store.openAI),
                               !.pc = IF store.openAI THEN "returned" ELSE "setProvider"]]
  /\ UNCHANGED store
  /\ ConfigFrame

\* llmProviderStore.setProvider(OpenAI, openAIConfig) of call i settles
setProvider(i) ==
  /\ config.calls[i].pc = "setProvider"
  /\ \/ /\ config' = [config EXCEPT !.calls[i] = PresetFailed(@)]
        /\ UNCHANGED store
     \/ /\ config' = [config EXCEPT !.calls[i] =
                        [@ EXCEPT !.pc = "setNavigator", !.writes = @ + 1]]
        /\ store' = [store EXCEPT !.openAI = TRUE, !.apiKey = TRUE, !.preset = TRUE]
  /\ ConfigFrame

\* agentModelStore.setAgentModel(Navigator, navigatorConfig) of call i settles
setNavigatorModel(i) ==
  /\ config.calls[i].pc = "setNavigator"
  /\ \/ /\ config' = [config EXCEPT !.calls[i] = PresetFailed(@)]
        /\ UNCHANGED store
     \/ /\ config' = [config EXCEPT !.calls[i] =
                        [@ EXCEPT !.pc = "setPlanner", !.writes = @ + 1]]
        /\ store' = [store EXCEPT !.navigator = TRUE]
  /\ ConfigFrame

\* agentModelStore.setAgentModel(Planner, plannerConfig) of call i settles
setPlannerModel(i) ==
  /\ config.calls[i].pc = "setPlanner"
  /\ \/ /\ config' = [config EXCEPT !.calls[i] = PresetFailed(@)]
        /\ UNCHANGED store
     \/ /\ config' = [config EXCEPT !.calls[i] =
                        [@ EXCEPT !.pc = "returned", !.writes = @ + 1]]
        /\ store' = [store EXCEPT !.planner = TRUE]
  /\ ConfigFrame

ConfigNext ==
  \/ initializeDefaultConfig
  \/ \E i \in 1..Len(config.calls) : hasProvider(i)
  \/ \E i \in 1..Len(config.calls) : setProvider(i)
  \/ \E i \in 1..Len(config.calls) : setNavigatorModel(i)
  \/ \E i \in 1..Len(config.calls) : setPlannerModel(i)

ConfigSpec == ConfigInit /\ [][ConfigNext]_vars

\* ================================================================= claims
Called(step) == \E k \in 1..Len(steps) : steps[k] = step
AllDone(tasks) == \A i \in 1..Len(tasks) : tasks[i].pc = "done"
ImagesJoined == Called("analyzeImages") /\ pc \in {"analyzeLinks", "analyzeButtons", "resolved"}
LinksJoined == Called("analyzeLinks") /\ pc \in {"analyzeButtons", "resolved", "returned"}
ButtonsJoined == Called("analyzeButtons") /\ pc \in {"resolved", "returned"}
ImageFailures == {"directFailed", "noDataURI", "retryFailed"}

FatalToRun ==
  {"Failed to extract page content", "OpenAI API key not configured",
   "Navigator model configuration not found"}
ConfigurationErrors ==
  {"OpenAI API key not configured", "Navigator model configuration not found"}

\* no generation call was issued and no attribute of the page was written
NoSideEffects ==
  /\ summaryCalls = 0
  /\ imageTasks = <<>> /\ linkTasks = <<>> /\ buttonTasks = <<>>
  /\ attr = [e \in Elements |-> AuthoredElement]

\* C1: analyzeAccessibility resolves with a complete report or rejects, and it
\* rejects only when the page content could not be extracted or the API key or
\* the model configuration is missing: with the content extracted and the
\* configuration present the run is never rejected.
C1_ReportOrFatalRejection ==
  entry = "analyzeAccessibility" =>
    /\ pc = "rejected" => error \in FatalToRun
    /\ pc = "resolved" =>
         /\ pageSummary # NoSummary
         /\ imageAnalysis.isArray /\ Len(imageAnalysis.items) = Length(images)

\* the value the report must carry for a candidate: what its own calls gave
ExpectedValue(t) == IF t.outcome = "generated" THEN t.answer ELSE Undefined

\* C2: failed enrichment calls do not abort the batch: no run is rejected once
\* a per-element call was issued, and a returned batch has one entry per
\* candidate handed to it, in order, absent for the candidates that failed
\* and equal to the candidate's own answer for the others.
C2_FailureIsolation ==
  /\ pc = "rejected" => imageTasks = <<>> /\ linkTasks = <<>> /\ buttonTasks = <<>>
  /\ ImagesJoined =>
       /\ Len(imageAnalysis.items) = Len(images.items)
       /\ \A i \in 1..Len(images.items) :
            imageAnalysis.items[i] =
              [imageUrl |-> images.items[i].imageUrl,
               generatedAlt |-> ExpectedValue(imageTasks[i])]
  /\ LinksJoined =>
       /\ Len(linkAnalysis.items) = Len(links.items)
       /\ \A i \in 1..Len(links.items) :
            linkAnalysis.items[i] =
              [linkUrl |-> links.items[i].linkUrl,
               generatedDescription |-> ExpectedValue(linkTasks[i])]
  /\ ButtonsJoined =>
       /\ Len(buttonAnalysis.items) = Len(buttons.items)
       /\ \A i \in 1..Len(buttons.items) :
            buttonAnalysis.items[i] =
              [buttonText |-> buttons.items[i].buttonText,
               generatedDescription |-> ExpectedValue(buttonTasks[i])]

\* a resolved run of two images: the first failed, the second was described
C2_Witness ==
  /\ pc = "resolved"
  /\ Len(imageTasks) = 2
  /\ imageTasks[1].outcome \in ImageFailures
  /\ imageAnalysis.items[1].generatedAlt = Undefined
  /\ imageAnalysis.items[2].generatedAlt = "A logo."

C4_FallbackOnlyWhenFetchRejected ==
  \A i \in 1..Len(imageTasks) :
    LET t == imageTasks[i] IN
    /\ (t.pc = "fallback" \/ t.route # "none" \/ Len(t.calls) > 1) => t.first = "fetchRejected"
    /\ t.first \in {"ok", "otherFailure"} =>
         /\ t.route = "none" /\ t.base64 = Null
         /\ t.calls = <<"url">>

\* one image described at the first call, another failed for another reason
C4_Witness ==
  /\ \E i \in 1..Len(imageTasks) :
       /\ imageTasks[i].pc = "done" /\ imageTasks[i].first = "ok"
       /\ Len(imageTasks[i].calls) = 1
  /\ \E j \in 1..Len(imageTasks) :
       /\ imageTasks[j].pc = "done" /\ imageTasks[j].first = "otherFailure"
       /\ Len(imageTasks[j].calls) = 1

\* C5: after a fetch-rejected direct call and a fallback that gave a data URI,
\* describeImage is retried once, with that data URI; the text the retry
\* answers is the image's generatedAlt; an image never has more than two
\* gateway calls.
C5_RetryOnceWithDataURI ==
  \A i \in 1..Len(imageTasks) :
    LET t == imageTasks[i] IN
    /\ Len(t.calls) <= 2
    /\ (t.first = "fetchRejected" /\ t.base64 # Null) =>
         /\ t.base64 \in DataURIs
         /\ t.calls = <<"url", t.base64>>
         /\ (t.pc = "done" /\ t.outcome = "generated") => t.generatedAlt = t.answer
         /\ (t.pc = "done" /\ t.outcome # "generated") => t.generatedAlt = Undefined

\* a resolved run in which the retry with the data URI answered "A logo."
C5_Witness ==
  /\ pc = "resolved"
  /\ \E i \in 1..Len(imageTasks) :
       /\ imageTasks[i].first = "fetchRejected"
       /\ imageTasks[i].base64 \in DataURIs
       /\ Len(imageTasks[i].calls) = 2
       /\ imageTasks[i].answer = "A logo."
       /\ imageAnalysis.items[i].generatedAlt = "A logo."

\* C6: a generateAltTextForImage call ends generated or absent and never
\* rejects: a failure that is not fetch-rejected, a fallback without data URI
\* and a failed retry leave generatedAlt undefined, no call is left outstanding
\* when the phase is over, and no run is rejected once the image phase began.
C6_GeneratedOrAbsent ==
  /\ \A i \in 1..Len(imageTasks) :
       LET t == imageTasks[i] IN
       /\ t.pc \in {"direct", "fallback", "retry", "write", "done"}
       /\ t.pc = "done" =>
            \/ t.outcome = "generated" /\ t.generatedAlt \in Texts
            \/ t.outcome \in ImageFailures /\ t.generatedAlt = Undefined
       /\ t.outcome \in ImageFailures => t.pc = "done" /\ t.generatedAlt = Undefined
       /\ t.outcome = "directFailed" <=> (t.first = "otherFailure")
  /\ imageTasks # <<>> => pc \in {"analyzeImages", "analyzeLinks", "analyzeButtons", "resolved"}
  /\ pc # "analyzeImages" => AllDone(imageTasks)

\* a resolved run with a failed retry and a fallback that gave no data URI
C6_Witness ==
  /\ pc = "resolved"
  /\ \E i \in 1..Len(imageTasks) : imageTasks[i].outcome = "retryFailed"
  /\ \E j \in 1..Len(imageTasks) : imageTasks[j].outcome = "noDataURI"

\* C7: without the API key or without the model configuration the run is
\* rejected with a configuration error at getLLMConfiguration, and until then
\* and at the rejection no generation call was issued and no attribute written.
C7_ConfigurationErrorBeforeSideEffects ==
  entry = "analyzeAccessibility" =>
    /\ (pc = "rejected" /\ error \in ConfigurationErrors) => NoSideEffects
    /\ (~store.apiKey \/ ~store.navigator) =>
         /\ NoSideEffects
         /\ pc # "resolved"
         /\ (Called("getLLMConfiguration") /\ pc # "getLLMConfiguration") =>
              (pc = "rejected" /\ error \in ConfigurationErrors)

\* a run rejected for the missing model configuration, the API key present
C7_Witness ==
  /\ pc = "rejected"
  /\ error = "Navigator model configuration not found"
  /\ store.apiKey /\ ~store.navigator
  /\ readability.success /\ readability.article

\* C8: when the content extraction answers success false or no article, the
\* run is rejected with that error and nothing else has run: no extraction of
\* images, links or buttons, no configuration lookup, no generation call, no
\* attribute written.
C8_ContentFailureFailsFast ==
  (/\ entry = "analyzeAccessibility"
   /\ \/ readability.answered /\ (~readability.success \/ ~readability.article)
      \/ pc = "rejected" /\ error = "Failed to extract page content") =>
    /\ pc = "rejected"
    /\ error = "Failed to extract page content"
    /\ steps = <<"extractPageContent">>
    /\ images = Arr(<<>>) /\ links = Arr(<<>>) /\ buttons = Arr(<<>>)
    /\ NoSideEffects

\* a run rejected because the extraction succeeded without an article
C8_Witness ==
  /\ pc = "rejected"
  /\ error = "Failed to extract page content"
  /\ readability.success /\ ~readability.article

\* C9: no link enrichment exists before every image enrichment is done, no
\* button enrichment before every image and link enrichment is, and a batch is
\* over only when each of its calls is done; a step of one element leaves the
\* other elements of its phase as they were, and a failing element leaves the
\* phase running.
C9_Step ==
  /\ linkTasks' # <<>> => AllDone(imageTasks')
  /\ buttonTasks' # <<>> => AllDone(imageTasks') /\ AllDone(linkTasks')
  /\ pc' \in {"resolved", "returned"} =>
       AllDone(imageTasks') /\ AllDone(linkTasks') /\ AllDone(buttonTasks')
  /\ \A i \in 1..Len(imageTasks) :
       imageTasks'[i] # imageTasks[i] =>
         /\ pc' = pc
         /\ \A j \in 1..Len(imageTasks) : j # i => imageTasks'[j] = imageTasks[j]
  /\ \A i \in 1..Len(linkTasks) :
       linkTasks'[i] # linkTasks[i] =>
         /\ pc' = pc
         /\ \A j \in 1..Len(linkTasks) : j # i => linkTasks'[j] = linkTasks[j]
  /\ \A i \in 1..Len(buttonTasks) :
       buttonTasks'[i] # buttonTasks[i] =>
         /\ pc' = pc
         /\ \A j \in 1..Len(buttonTasks) : j # i => buttonTasks'[j] = buttonTasks[j]

CanonicalOrder ==
  <<"extractPageContent", "extractImages", "extractLinks", "extractButtons",
    "getLLMConfiguration", "generatePageSummary", "analyzeImages", "analyzeLinks",
    "analyzeButtons">>
CanonicalLabels ==
  <<"Extracting page content...",
    "Extracting images from page (Top 10 - DEMO mode)...",
    "Extracting links from page (Top 10 - DEMO mode)...",
    "Extracting buttons from page (Top 10 - DEMO mode)...",
    "Configuring AI model...", "Generating page summary...",
    "Analyzing N images with AI vision...", "Analyzing N links...",
    "Analyzing N buttons...", "Finalizing accessibility report...">>
HasStep(v, step) ==
  v = "full" \/ step \notin {"extractLinks", "extractButtons", "analyzeLinks", "analyzeButtons"}
IsPrefix(a, b) == Len(a) <= Len(b) /\ \A k \in 1..Len(a) : a[k] = b[k]

\* C10: the orchestrator's calls are an initial part of: content extraction,
\* image, link and button extraction, configuration, page summary, image, link
\* and button enrichment; a supplied progress callback has received exactly one
\* label per call made, in that order, and the final label only when the
\* report is returned.
C10_StepAndLabelOrder ==
  entry = "analyzeAccessibility" =>
    /\ IsPrefix(steps, SelectSeq(CanonicalOrder, LAMBDA step : HasStep(variant, step)))
    /\ IF variant = "full" /\ hasCallback
       THEN /\ IsPrefix([k \in 1..Len(progress) |-> progress[k].label], CanonicalLabels)
            /\ Len(progress) = Len(steps) + (IF pc = "resolved" THEN 1 ELSE 0)
       ELSE progress = <<>>

\* a run with a callback that has come to the image phase, seven labels delivered
C10_Witness ==
  /\ variant = "full" /\ hasCallback
  /\ Len(steps) = 7 /\ steps[7] = "analyzeImages"
  /\ Len(progress) = 7
  /\ progress[7].label = "Analyzing N images with AI vision..."

\* ------------------------------------------------------------ link metadata
\* the link's target answered a request with ok and its HTML carries a
\* description meta
TargetDescribes(t) == t.fetched \in {"headOk", "scraped"} /\ t.target # Undefined

\* C11: a link whose target is reachable and carries the description meta D is
\* reported with generatedDescription D and has no generation call; whenever
\* the metadata step found a description or a title, the description if there
\* is one and the title otherwise is the link's value, with no generation call.
C11_MetadataUsedDirectly ==
  \A i \in 1..Len(linkTasks) :
    LET t == linkTasks[i] IN
    t.fetched # "pending" =>
      /\ TargetDescribes(t) =>
           /\ t.calls = 0
           /\ t.pc = "done" => t.generatedDescription = t.target
      /\ t.description # Undefined =>
           t.calls = 0 /\ t.generatedDescription = t.description
      /\ (t.description = Undefined /\ t.title # Undefined) =>
           t.calls = 0 /\ t.generatedDescription = t.title

\* C12: describeLink is called for a link exactly when the metadata step gave
\* neither a description nor a title, and at most once; a metadata fetch that
\* failed leaves the link to describeLink, so that its value is absent only
\* when that call failed.
C12_DescribeLinkIffNoMetadata ==
  \A i \in 1..Len(linkTasks) :
    LET t == linkTasks[i] IN
    /\ t.fetched = "pending" => t.calls = 0
    /\ t.fetched # "pending" =>
         /\ t.calls = (IF t.title = Undefined /\ t.description = Undefined THEN 1 ELSE 0)
         /\ t.fetched = "failed" =>
              /\ t.calls = 1
              /\ t.pc \in {"describeLink", "write", "done"}
              /\ (t.pc = "done" /\ t.generatedDescription = Undefined) =>
                   t.outcome = "failed"
              /\ t.outcome = "generated" => t.generatedDescription = t.answer

\* a returned batch with a link whose metadata fetch failed, described by the
\* model, and a link whose scraped title was used
C12_Witness ==
  /\ pc = "returned"
  /\ \E i \in 1..Len(linkTasks) :
       /\ linkTasks[i].fetched = "failed"
       /\ linkTasks[i].calls = 1
       /\ linkAnalysis.items[i].generatedDescription = "A logo."
  /\ \E j \in 1..Len(linkTasks) :
       /\ linkTasks[j].fetched = "scraped"
       /\ linkTasks[j].calls = 0
       /\ linkAnalysis.items[j].generatedDescription = "Shop"

\* ------------------------------------------------------------- DOM writes
Attributes == {"alt", "title", "ariaLabel"}
TaskValue(t) == IF "generatedAlt" \in DOMAIN t THEN t.generatedAlt ELSE t.generatedDescription
AllTasks == imageTasks \o linkTasks \o buttonTasks
\* how often the provenance prefix stands in an attribute value
PrefixCount(value) == Cardinality({k \in 1..Len(value) : value[k] = ProvenancePrefix})

\* C13: in a resolved run, an image that describeImage described at the first
\* call with T and whose selector found an img element when the alt text was
\* applied is reported with generatedAlt T, and at the end of the run the alt
\* attribute of its element is the provenance prefix followed by T.
C13_FirstTryAltEndToEnd ==
  (entry = "analyzeAccessibility" /\ pc = "resolved") =>
    \A i \in 1..Len(imageTasks) :
      LET t == imageTasks[i] IN
      (t.first = "ok" /\ t.wrote = "alt") =>
        /\ imageAnalysis.items[i].generatedAlt = t.answer
        /\ attr[t.element].alt = Tagged(t.answer)

\* C14: applying the value an enrichment is about to write a second time to
\* the same element leaves the page as the first application left it, for each
\* of the three writers and whatever the selector finds, and the value written
\* has the provenance prefix once; no attribute of the page has it twice.
C14_WritesIdempotent ==
  /\ \A i \in 1..Len(imageTasks), found \in PageElements :
       imageTasks[i].pc = "write" =>
         LET e == querySelector(document, imageTasks[i].selector)
             once == AltTextApplied(attr, e, found, imageTasks[i].generatedAlt)
         IN /\ AltTextApplied(once, e, found, imageTasks[i].generatedAlt) = once
            /\ PrefixCount(once[e].alt) <= 1 /\ PrefixCount(once[e].ariaLabel) <= 1
  /\ \A i \in 1..Len(linkTasks), found \in PageElements :
       linkTasks[i].pc = "write" =>
         LET e == querySelector(document, linkTasks[i].selector)
             once == LinkTitleApplied(attr, e, found, linkTasks[i].generatedDescription)
         IN /\ LinkTitleApplied(once, e, found, linkTasks[i].generatedDescription) = once
            /\ PrefixCount(once[e].title) <= 1
  /\ \A i \in 1..Len(buttonTasks), found \in PageElements :
       buttonTasks[i].pc = "write" =>
         LET e == querySelector(document, buttonTasks[i].selector)
             once == ButtonAriaLabelApplied(attr, e, found,
                                            buttonTasks[i].generatedDescription)
         IN /\ ButtonAriaLabelApplied(once, e, found,
                                      buttonTasks[i].generatedDescription) = once
            /\ PrefixCount(once[e].ariaLabel) <= 1
  /\ \A e \in Elements, name \in Attributes :
       attr[e][name] # Authored => PrefixCount(attr[e][name]) = 1

\* two images of one selector, described with the same text, both written:
\* the alt text was applied twice to the element the selector finds
C14_Witness ==
  /\ Len(imageTasks) = 2
  /\ \A i \in 1..2 :
       /\ imageTasks[i].pc = "done" /\ imageTasks[i].wrote = "alt"
       /\ imageTasks[i].generatedAlt = "A logo."
  /\ imageTasks[1].selector = imageTasks[2].selector
  /\ attr[querySelector(document, imageTasks[1].selector)].alt = Tagged("A logo.")

\* C15: a write whose selector finds no element changes no attribute and
\* raises nothing: the enrichment ends, the batch goes on, and the value
\* generated for the element stays the one reported.
C15_Step ==
  /\ \A i \in 1..Len(imageTasks) :
       (imageTasks[i].pc = "write" /\ imageTasks'[i].pc = "done"
          /\ imageTasks'[i].wrote = "none") =>
         /\ attr' = attr
         /\ pc' = pc /\ error' = error
         /\ imageTasks'[i].generatedAlt = imageTasks[i].generatedAlt
  /\ \A i \in 1..Len(linkTasks) :
       (linkTasks[i].pc = "write" /\ linkTasks'[i].pc = "done"
          /\ linkTasks'[i].wrote = "none") =>
         /\ attr' = attr
         /\ pc' = pc /\ error' = error
         /\ linkTasks'[i].generatedDescription = linkTasks[i].generatedDescription
  /\ \A i \in 1..Len(buttonTasks) :
       (buttonTasks[i].pc = "write" /\ buttonTasks'[i].pc = "done"
          /\ buttonTasks'[i].wrote = "none") =>
         /\ attr' = attr
         /\ pc' = pc /\ error' = error
         /\ buttonTasks'[i].generatedDescription = buttonTasks[i].generatedDescription
  /\ (pc' = "resolved" /\ imageAnalysis'.isArray) =>
       \A i \in 1..Len(imageTasks') :
         (imageTasks'[i].wrote = "none" /\ imageTasks'[i].outcome = "generated") =>
           imageAnalysis'.items[i].generatedAlt = imageTasks'[i].answer
  /\ pc' = "rejected" => AllTasks' = <<>>

C15_StaleSelectorNoOp == [][C15_Step]_vars

\* a resolved run that reports the text of an image whose selector found
\* nothing, the page as it was authored
C15_Witness ==
  /\ pc = "resolved"
  /\ \E i \in 1..Len(imageTasks) :
       /\ imageTasks[i].wrote = "none"
       /\ imageTasks[i].outcome = "generated"
       /\ imageAnalysis.items[i].generatedAlt = "A logo."
  /\ attr = [e \in Elements |-> AuthoredElement]

\* C16: a step changes no attribute but alt or aria-label in the image phase,
\* title in the link phase and aria-label in the button phase, alt when the
\* selector found an img element and aria-label when it found another one; the
\* value put there begins with the provenance prefix; the document is otherwise
\* left as it is.
C16_Step ==
  /\ document' = document
  /\ attr' # attr =>
     \A e \in Elements, name \in Attributes :
       attr'[e][name] # attr[e][name] =>
         /\ attr'[e][name][1] = ProvenancePrefix
         /\ Len(attr'[e][name]) = 2
         /\ pc = "analyzeImages" =>
              /\ name \in {"alt", "ariaLabel"}
              /\ \E i \in 1..Len(imageTasks) :
                   /\ imageTasks[i].pc = "write" /\ imageTasks'[i].wrote = name
                   /\ attr'[e][name][2] = imageTasks[i].generatedAlt
         /\ pc = "analyzeLinks" => name = "title"
         /\ pc = "analyzeButtons" => name = "ariaLabel"
         /\ pc \in {"analyzeImages", "analyzeLinks", "analyzeButtons"}

C20_WritesOrderInsensitive ==
  \A i \in 1..Len(AllTasks) :
    LET t == AllTasks[i] IN
    (t.pc = "done" /\ t.wrote # "none") => attr[t.element][t.wrote] = Tagged(TaskValue(t))

\* -------------------------------------------------------------- extraction
\* the score of a candidate's element before the clamp
RawScore(c) ==
  LET node == Node(document, c.element) IN
  CASE c.element[1] = "img" -> ImageRawScore(node, c.isMainContent)
    [] c.element[1] = "a" -> LinkRawScore(node, c.isMainContent)
    [] OTHER -> ButtonRawScore(node, c.isMainContent)
\* the candidates of the page before the ranking and the cap
Qualifying(kind) ==
  CASE kind = "img" -> PushImages(document, "div", 1, PushImages(document, "img", 1, <<>>))
    [] kind = "a" -> PushLinks(document, 1, {}, <<>>)
    [] OTHER -> PushButtons(document, 1, <<>>)
CapOf(kind) == CASE kind = "a" -> LinkCap [] kind = "button" -> ButtonCap [] OTHER -> MaxPage
Range(xs) == {xs[k] : k \in 1..Len(xs)}

\* C17: the importanceScore of every candidate the three extractors return is
\* an integer from 0 to 100, whatever the signals of its element: the score
\* before the clamp when that lies in the range, 0 below it and 100 above it.
C17_ScoreInRange ==
  \A s \in 1..Len(scans) : \A k \in 1..Len(scans[s].found) :
    LET c == scans[s].found[k] IN
    /\ c.importanceScore \in 0..100
    /\ RawScore(c) \in 0..100 => c.importanceScore = RawScore(c)
    /\ RawScore(c) < 0 => c.importanceScore = 0
    /\ RawScore(c) > 100 => c.importanceScore = 100

\* a scan that returned a button scored above 100 before the clamp and a
\* button scored below 0 before it
C17_Witness ==
  \E s \in 1..Len(scans) :
    /\ scans[s].kind = "button"
    /\ \E c \in Range(scans[s].found) : RawScore(c) > 100 /\ c.importanceScore = 100
    /\ \E c \in Range(scans[s].found) : RawScore(c) < 0 /\ c.importanceScore = 0

\* C18: extractLinks returns at most 20 candidates and extractButtons at most
\* 15: all the qualifying elements when they are no more than that, and
\* otherwise 20 (15) of them, none of which has a lower score than a
\* qualifying element that was left out.
C18_CapsKeepTopRanked ==
  \A s \in 1..Len(scans) :
    LET found == scans[s].found
        all == Qualifying(scans[s].kind)
    IN scans[s].kind \in {"a", "button"} =>
         /\ Len(found) <= CapOf(scans[s].kind)
         /\ Len(found) = Min(Len(all), CapOf(scans[s].kind))
         /\ Range(found) \subseteq Range(all)
         /\ \A r \in Range(found), q \in Range(all) \ Range(found) :
              r.importanceScore >= q.importanceScore

\* a scan of a page with more than 20 links that left out the first link of
\* the document, the one with the lowest score
C18_Witness ==
  \E s \in 1..Len(scans) :
    /\ scans[s].kind = "a"
    /\ Len(Qualifying("a")) > LinkCap
    /\ Len(scans[s].found) = LinkCap
    /\ \A c \in Range(scans[s].found) : c.element # Element("a", 1)
    /\ \E c \in Range(scans[s].found) : c.element = Element("a", LinkCap + 1)

\* C19: two scans of the same document return the same candidates with the
\* same selectors, and the selector of every candidate finds, in that
\* document, the element the candidate was read from.
C19_SelectorsRefind ==
  /\ \A s1, s2 \in 1..Len(scans) :
       scans[s1].kind = scans[s2].kind => scans[s1].found = scans[s2].found
  /\ \A s \in 1..Len(scans) : \A c \in Range(scans[s].found) :
       querySelector(document, c.selector) = c.element

\* ------------------------------------------------------------ the demo cap
\* what the orchestrator keeps of a list an extractor returned, were each kept
\* with .slice(0, 10).reverse()
DemoCapped(found) == Arr(Reverse(Slice(found, DemoTopN)))

\* C21: in the full service each of the three lists the orchestrator keeps is
\* the extractor's list cut to its first 10 and reversed, the enrichment of a
\* kind is started with one call per entry of that list, and the report lists
\* have those entries in that order.
C21_DemoCapReversed ==
  (entry = "analyzeAccessibility" /\ variant = "full") =>
    /\ Called("extractLinks") =>
         /\ images \in {DemoCapped(found) : found \in Extracted(imagesInPage(document))}
         /\ Length(images) <= DemoTopN
    /\ Called("extractButtons") =>
         /\ links \in {DemoCapped(found) : found \in Extracted(linksInPage(document))}
         /\ Length(links) <= DemoTopN
    /\ Called("getLLMConfiguration") =>
         /\ buttons \in {DemoCapped(found) : found \in Extracted(buttonsInPage(document))}
         /\ Length(buttons) <= DemoTopN
    /\ Called("analyzeImages") =>
         /\ pc # "rejected"
         /\ Len(imageTasks) = Length(images)
    /\ pc = "resolved" =>
         /\ [k \in 1..Len(imageAnalysis.items) |-> imageAnalysis.items[k].imageUrl]
              = [k \in 1..Length(images) |-> images.items[k].imageUrl]
         /\ [k \in 1..Len(linkAnalysis.items) |-> linkAnalysis.items[k].linkUrl]
              = [k \in 1..Length(links) |-> links.items[k].linkUrl]
         /\ [k \in 1..Len(buttonAnalysis.items) |-> buttonAnalysis.items[k].buttonText]
              = [k \in 1..Length(buttons) |-> buttons.items[k].buttonText]

\* ------------------------------------------------------ the region classifier
\* the reference classifier: a main-content indicator is the tag main or
\* article or a class or id containing main, content or article; a non-content
\* indicator is the tag nav, aside, footer or header or a class containing
\* sidebar, menu, nav, ad or banner
MainContentIndicatorOfReference(el) ==
  \/ el.tagName \in {"main", "article"}
  \/ \E part \in {"main", "content", "article"} :
       Includes(el.className, part) \/ Includes(el.id, part)
NonContentIndicatorOfReference(el) ==
  \/ el.tagName \in {"nav", "aside", "footer", "header"}
  \/ \E part \in {"sidebar", "menu", "nav", "ad", "banner"} : Includes(el.className, part)

\* the nearest element of the chain that carries an indicator decides
RECURSIVE WalkOfReference(_, _)
WalkOfReference(chain, k) ==
  IF k > Len(chain) THEN FALSE
  ELSE IF MainContentIndicatorOfReference(chain[k]) THEN TRUE
  ELSE IF NonContentIndicatorOfReference(chain[k]) THEN FALSE
  ELSE WalkOfReference(chain, k + 1)

\* C22: for every candidate the three extractors return, isMainContent is what
\* the reference classifier gives for the candidate's element: the nearest
\* ancestor-or-self carrying an indicator decides, with one set of indicators
\* for images, links and buttons.
C22_ClassifierIsReference ==
  \A s \in 1..Len(scans) : \A c \in Range(scans[s].found) :
    c.isMainContent = WalkOfReference(Chain(Node(document, c.element)), 1)

\* ------------------------------------------------------------- the ranking
\* candidate c is scanned before candidate d: the <img> elements in document
\* order, then the background-image containers in document order; links and
\* buttons in document order
ScannedBefore(c, d) ==
  LET tagOf(x) == Node(document, x.element).tag IN
  \/ tagOf(c) = "img" /\ tagOf(d) = "div"
  \/ tagOf(c) = tagOf(d) /\ c.element[2] < d.element[2]

\* C23: the list each extractor returns is in non-increasing order of
\* importanceScore, and two candidates of equal score stand in scan order:
\* document order, for images all <img> elements before the background-image
\* containers.
C23_SortedStable ==
  \A s \in 1..Len(scans) :
    LET found == scans[s].found IN
    \A k, l \in 1..Len(found) :
      k < l =>
        /\ found[k].importanceScore >= found[l].importanceScore
        /\ found[k].importanceScore = found[l].importanceScore =>
             ScannedBefore(found[k], found[l])

\* a scan that ranked the large img first and then, at equal scores, the small
\* img before the two containers, the first of which precedes it in the document
C23_Witness ==
  \E s \in 1..Len(scans) :
    LET found == scans[s].found IN
    /\ scans[s].kind = "img" /\ Len(found) = 4
    /\ [k \in 1..4 |-> found[k].element[2]] = <<3, 2, 1, 4>>
    /\ found[1].importanceScore > found[2].importanceScore
    /\ found[2].importanceScore = found[3].importanceScore
    /\ found[3].importanceScore = found[4].importanceScore

\* --------------------------------------------------------- de-duplication
\* C24: extractImages returns no two candidates of one URL, and the candidate
\* of a URL is the first element scanned that has it; extractLinks and
\* extractButtons return no two candidates of one selector; a link with a valid
\* href and non-empty text whose selector no earlier candidate has is a
\* candidate before the cap.
C24_Deduplicated ==
  \A s \in 1..Len(scans) :
    LET found == scans[s].found
        kind == scans[s].kind
    IN /\ \A k, l \in 1..Len(found) :
            k # l => IF kind = "img" THEN found[k].imageUrl # found[l].imageUrl
                     ELSE found[k].selector # found[l].selector
       /\ kind = "img" =>
            \A c \in Range(found) : \A k \in 1..Len(document.img) :
              (document.img[k].src = c.imageUrl /\ k # c.element[2]
                 /\ Node(document, c.element).tag = document.img[k].tag) =>
                c.element[2] < k
       /\ kind = "a" =>
            \A k \in 1..Len(document.a) :
              LET node == document.a[k] IN
              (/\ isValidLink(node.href)
               /\ node.text.length > 0
               /\ ~\E c \in Range(Qualifying("a")) :
                     c.element[2] < k /\ c.selector = generateSelector(node)) =>
                \E c \in Range(Qualifying("a")) : c.element = Element("a", k)

\* ------------------------------------------------------------- the scores
\* a sum cut to 0..100
Within0To100(sum) == IF sum < 0 THEN 0 ELSE IF sum > 100 THEN 100 ELSE sum

\* a class that names a primary or call-to-action link
LinkClassNamesPrimaryOrCta(node) ==
  \E part \in {"primary", "cta"} : Includes(node.className, part)

\* a class that contains primary, cta, button or btn
LinkClassHints(node) ==
  \E part \in {"primary", "cta", "button", "btn"} : Includes(node.className, part)

\* the link score the claim gives, from its four inputs
LinkScoreOfReference(inMain, classHints, length, lower) ==
  LET base == IF inMain THEN 50 ELSE 0
      class == IF classHints THEN 30 ELSE 0
      size == IF length \in 4..99 THEN 20 ELSE IF length <= 3 THEN 0 - 20 ELSE 0
      phrase == IF lower \in {"read more", "click here", "more"} THEN 0 - 10 ELSE 0
  IN Within0To100(base + class + size + phrase)

\* C25, as stated: the importanceScore of every link candidate is, cut to
\* 0..100, 50 when in main content, plus 30 when the class hints primary or
\* CTA, plus 20 for a text of 4 to 99 characters and minus 20 for one of at
\* most 3, minus 10 when the lower-cased text is exactly "read more", "click
\* here" or "more"; no other signal enters it.
C25_LinkScoreAsStated ==
  \A s \in 1..Len(scans) :
    scans[s].kind = "a" =>
      \A c \in Range(scans[s].found) :
        LET node == Node(document, c.element) IN
        c.importanceScore =
          LinkScoreOfReference(c.isMainContent, LinkClassNamesPrimaryOrCta(node),
                               node.text.length, node.text.lower)

\* C25, amended: the same sum, the 30 being added when the class contains
\* primary, cta, button or btn.
C25_LinkScore ==
  \A s \in 1..Len(scans) :
    scans[s].kind = "a" =>
      \A c \in Range(scans[s].found) :
        LET node == Node(document, c.element) IN
        c.importanceScore =
          LinkScoreOfReference(c.isMainContent, LinkClassHints(node),
                               node.text.length, node.text.lower)

\* a scan of a link in main content with a hinting class and the text "more":
\* 50 + 30 + 20 - 10
C25_Witness ==
  \E s \in 1..Len(scans) : \E c \in Range(scans[s].found) :
    LET node == Node(document, c.element) IN
    /\ scans[s].kind = "a"
    /\ node.text.lower = "more" /\ node.text.length = 4
    /\ c.isMainContent /\ LinkClassHints(node)
    /\ c.importanceScore = 90

\* a class that names a hero, featured or primary image
ImageClassNamesHeroFeaturedPrimary(node) ==
  \E part \in {"hero", "featured", "primary"} : Includes(node.className, part)

\* a class that contains hero, featured, main or primary
ImageClassHints(node) ==
  \E part \in {"hero", "featured", "main", "primary"} : Includes(node.className, part)

\* the image score the claim gives, from its inputs; `isImg` is false for a
\* background-image container
ImageScoreOfReference(inMain, isImg, width, height, classHints, inFigure) ==
  LET base == IF inMain THEN 50 ELSE 0
      large == IF ~isImg THEN 0
               ELSE IF width > 300 /\ height > 200 THEN 30
               ELSE IF width > 150 /\ height > 100 THEN 15 ELSE 0
      tiny == IF isImg /\ (width < 50 \/ height < 50) THEN 0 - 30 ELSE 0
      class == IF classHints THEN 25 ELSE 0
      figure == IF inFigure THEN 15 ELSE 0
  IN Within0To100(base + large + tiny + class + figure)

\* C26, as stated: the importanceScore of every image candidate is, cut to
\* 0..100, 50 when in main content, for an <img> plus 30 when wider than 300
\* and higher than 200, otherwise plus 15 when wider than 150 and higher than
\* 100, and minus 30 when narrower or lower than 50, plus 25 when the class
\* hints hero, featured or primary, plus 15 inside a <figure>; the size of a
\* background-image container does not enter it, nor any other signal.
C26_ImageScoreAsStated ==
  \A s \in 1..Len(scans) :
    scans[s].kind = "img" =>
      \A c \in Range(scans[s].found) :
        LET node == Node(document, c.element) IN
        c.importanceScore =
          ImageScoreOfReference(c.isMainContent, node.tag = "img", node.width,
                                node.height, ImageClassNamesHeroFeaturedPrimary(node),
                                node.figure)

\* C26, amended: the same sum, the 25 being added when the class contains
\* hero, featured, main or primary.
C26_ImageScore ==
  \A s \in 1..Len(scans) :
    scans[s].kind = "img" =>
      \A c \in Range(scans[s].found) :
        LET node == Node(document, c.element) IN
        c.importanceScore =
          ImageScoreOfReference(c.isMainContent, node.tag = "img", node.width,
                                node.height, ImageClassHints(node), node.figure)

\* a scan of a container of 400 by 300 outside main content, with a hinting
\* class and inside a figure: 25 + 15, its size not counted
C26_Witness ==
  \E s \in 1..Len(scans) : \E c \in Range(scans[s].found) :
    LET node == Node(document, c.element) IN
    /\ scans[s].kind = "img"
    /\ node.tag = "div" /\ node.width = 400 /\ node.height = 300
    /\ ~c.isMainContent /\ ImageClassHints(node) /\ node.figure
    /\ c.importanceScore = 40

\* ------------------------------------------------- writes and report entries
\* the steps of the enrichments `ts` of one kind, `us` after the step: the
\* writer is called once the value was obtained and with it, not twice, and an
\* enrichment that ends without the call ends without a value
WriterCalls(ts, us) ==
  /\ ts = <<>> =>
       \A i \in 1..Len(us) :
         us[i].pc \notin {"write", "done"} /\ us[i].wrote = "none"
           /\ TaskValue(us[i]) = Undefined
  /\ ts # <<>> =>
       /\ Len(us) = Len(ts)
       /\ \A i \in 1..Len(ts) :
            LET t == ts[i]
                u == us[i]
            IN /\ (u.pc = "write" /\ t.pc # "write") =>
                    /\ t.pc # "done" /\ t.wrote = "none"
                    /\ TaskValue(t) = Undefined
                    /\ TaskValue(u) # Undefined /\ TaskValue(u) = u.answer
               /\ t.pc = "write" =>
                    /\ u.pc \in {"write", "done"}
                    /\ TaskValue(u) = TaskValue(t)
               /\ t.pc = "done" => u = t
               /\ (u.pc = "done" /\ t.pc \notin {"write", "done"}) =>
                    TaskValue(u) = Undefined /\ u.wrote = "none"
               /\ u.wrote # t.wrote => t.pc = "write" /\ u.pc = "done"

\* C27: the writer is called for a candidate exactly when a value was
\* generated (or taken from the metadata) for it, after that, once and with
\* that value; what a step writes to the page is the provenance prefix followed
\* by the value of the candidate whose writer ran; the report entry of a
\* candidate has the value its writer was called with, and none when no writer
\* was called.
C27_Step ==
  /\ WriterCalls(imageTasks, imageTasks')
  /\ WriterCalls(linkTasks, linkTasks')
  /\ WriterCalls(buttonTasks, buttonTasks')
  /\ attr' # attr =>
       \E i \in 1..Len(AllTasks) :
         /\ AllTasks[i].pc = "write" /\ AllTasks'[i].pc = "done"
         /\ \A e \in Elements, name \in Attributes :
              attr'[e][name] # attr[e][name] =>
                attr'[e][name] = <<ProvenancePrefix, TaskValue(AllTasks[i])>>
  /\ (imageAnalysis' # imageAnalysis /\ imageAnalysis'.isArray) =>
       \A i \in 1..Len(imageTasks) :
         imageAnalysis'.items[i].generatedAlt = TaskValue(imageTasks[i])
  /\ linkAnalysis' # linkAnalysis =>
       \A i \in 1..Len(linkTasks) :
         linkAnalysis'.items[i].generatedDescription = TaskValue(linkTasks[i])
  /\ buttonAnalysis' # buttonAnalysis =>
       \A i \in 1..Len(buttonTasks) :
         buttonAnalysis'.items[i].generatedDescription = TaskValue(buttonTasks[i])

C27_WriteReportConsistency == [][C27_Step]_vars

\* a resolved run of two images with ids: the first described and written, its
\* alt the prefix and the reported text; the second failed, reported without a
\* value, its element as authored
C27_Witness ==
  /\ pc = "resolved" /\ Len(imageTasks) = 2
  /\ imageTasks[1].selector # imageTasks[2].selector
  /\ imageTasks[1].wrote = "alt"
  /\ imageAnalysis.items[1].generatedAlt = "A logo."
  /\ attr[imageTasks[1].element].alt = <<"AI Generated: ", "A logo.">>
  /\ imageTasks[2].outcome \in ImageFailures
  /\ imageAnalysis.items[2].generatedAlt = Undefined
  /\ attr[imageTasks[2].element] = AuthoredElement

\* ------------------------------------------------------- the content script
TogglesOnly ==
  \A k \in 1..Len(content.responses) :
    content.responses[k].type = "toggle_readability_mode"

\* C28: after toggle_readability_mode messages only, failed ones included:
\* while reader mode is not active the body's HTML and style attribute are
\* those of the page before reader mode was first applied; every successful
\* response has the `active` the handler left in readabilityModeActive; the
\* original body is saved exactly while reader mode is active.
C28_ToggleRoundTrip ==
  TogglesOnly =>
    /\ (~content.readabilityModeActive /\ content.before # NullValue) =>
         /\ content.body.innerHTML = content.before[1].innerHTML
         /\ content.body.style = content.before[1].style
    /\ \A k \in 1..Len(content.responses) :
         content.responses[k].success =>
           content.responses[k].active = Some(content.responses[k].resulting)
    /\ content.readabilityModeActive <=> content.originalBodyHTML # NullValue

\* the elements of the live document that carry the highlight styling
Highlighted ==
  {name \in DOMAIN content.body.innerHTML.inline :
     \/ content.body.innerHTML.inline[name].border = HighlightBorder
     \/ content.body.innerHTML.inline[name].outline = HighlightOutline}
\* the inline border and outline the page's elements were authored with (those
\* of the reader view have none)
AuthoredInline(name) ==
  IF content.body.innerHTML.view = "page" THEN content.authored.inline[name] ELSE NoInline

\* C29: after highlight_element and toggle_readability_mode messages in any
\* order, at most one element of the live document has the highlight border or
\* outline, and it is the element highlightedElement holds; every other
\* element has the inline border and outline it was authored with; a
\* highlight_element request whose selector matched nothing was answered
\* success false and left no element highlighted.
C29_SingleTrackedHighlight ==
  /\ Cardinality(Highlighted) <= 1
  /\ \A name \in Highlighted :
       content.highlightedElement =
         Some([nodes |-> content.body.nodes, name |-> name])
  /\ \A name \in DOMAIN content.body.innerHTML.inline :
       name \notin Highlighted =>
         content.body.innerHTML.inline[name] = AuthoredInline(name)
  /\ LET n == Len(content.responses) IN
     (n > 0 /\ content.responses[n].type = "highlight_element"
        /\ content.highlightedElement = NullValue) =>
       ~content.responses[n].success /\ Highlighted = {}

\* ------------------------------------------------- the default configuration
\* C30: no call of initializeDefaultConfig throws; a call made without a
\* usable DEFAULT_OPENAI_KEY, or that found an OpenAI provider stored, writes
\* nothing; once every call has returned, failed writes included, a stored
\* provider preset comes with the Navigator and the Planner model
\* configuration, and getLLMConfiguration does not fail for a missing
\* Navigator model configuration.
C30_PresetAllOrNothing ==
  /\ \A i \in 1..Len(config.calls) :
       LET call == config.calls[i] IN
       /\ call.outcome = "resolved"
       /\ (NoDefaultKey(config.DEFAULT_OPENAI_KEY) \/ call.hasOpenAI = Some(TRUE)) =>
            call.writes = 0 /\ call.pc = "returned"
  /\ ((\A i \in 1..Len(config.calls) : config.calls[i].pc = "returned")
        /\ store.preset) =>
       /\ store.navigator /\ store.planner
       /\ LLMConfigurationError(store) # "Navigator model configuration not found"

====
